---- MODULE Spec2Model ----
(***************************************************************************)
(* Democrit: atomic trades for XAYA games.                                 *)
(*                                                                         *)
(* A model of the trade-negotiation engine: the per-trade state machine    *)
(* (Trade), the own orders with their locks (MyOrders) and the manager     *)
(* that owns the active trades and the archive (TradeManager).             *)
(*                                                                         *)
(* Conventions:                                                            *)
(*  - optional protocol-buffer fields use a sentinel for "not set":        *)
(*    Unset (-1) for numbers, NoStr ("") for strings, NoPsbt for PSBTs;    *)
(*  - a PSBT is modelled by its decoded content (inputs, outputs and the   *)
(*    per-input signing progress), which is what the wallet's decodepsbt   *)
(*    shows to the program;                                                *)
(*  - everything the wallet, the GSP and the asset spec answer is an       *)
(*    input of the action that asks (a record x chosen with \E);           *)
(*  - a trade record carries one history field, "locks": the wallet        *)
(*    outputs that were locked on behalf of the trade.  It is not part of  *)
(*    the TradeState protocol buffer and no operation reads it.            *)
(***************************************************************************)
EXTENDS Integers, Sequences, FiniteSets, TLC

(***************************************************************************)
(* Bounds of the model.                                                    *)
(***************************************************************************)
MaxTime == 2
MaxHeight == 3
MaxId == 1
MaxTrades == 2
MaxClock == 3
MaxQueue == 3
AmountBits == 4
MaxNameLen == 4
MaxRuns == 3
JobSteps == 2
JobInterval == 1
MaxOutputs == 3
MaxInputs == 3
ChainLen == 5

(***************************************************************************)
(* Program constants.  The two flags are scaled down from their defaults   *)
(* (6 confirmations, 30 s); both are configurable in the program.          *)
(***************************************************************************)
Confirmations == 2
TradeTimeout == 1
NAME_VALUE == 1000000
MAX_BLOCK_ANCESTORS_CHECKED == 3

Unset == -1
NoStr == ""

Me == "me"
Peers == {"al"}
Asset == "gold"
OrderTypes == {"BID", "ASK"}

(***************************************************************************)
(* The wallet's outputs: the seller's name output and coins.               *)
(***************************************************************************)
NameOut == "nm"
Coins == {"c1"}
PeerCoin == "pc"
PeerNameOut == "pn"

NoNameOp == [op |-> NoStr, name |-> <<>>, value |-> <<>>]
NoPsbt == [vin |-> <<>>, vout |-> <<>>, sigs |-> <<>>]
NoSellerData == [name_address |-> NoStr, chi_address |-> NoStr,
                 name_output |-> NoStr]
NoTakingOrder == [id |-> Unset, units |-> Unset]

NoMsg == [counterparty |-> NoStr, identifier |-> <<>>,
          has_taking_order |-> FALSE, taking_order |-> NoTakingOrder,
          has_seller_data |-> FALSE, seller_data |-> NoSellerData,
          has_psbt |-> FALSE, psbt |-> NoPsbt]

Val(x) == IF x = Unset THEN 0 ELSE x

SeqToSet(s) == {s[i] : i \in DOMAIN s}

(***************************************************************************)
(* TradeChecker                                                            *)
(***************************************************************************)
GetXayaName(account) == <<"p", account>>

\* The move is a deterministic function of its arguments; the JSON text is
\* represented by the tuple of the values it is built from.
GetNameUpdateValue(seller, buyer, asset, units) ==
  <<"g", seller, buyer, asset, units, "dem">>

\* Amount is a signed integer of AmountBits bits (int64_t in the program).
MinAmount == -(2 ^ (AmountBits - 1))

MaxAmount == 2 ^ (AmountBits - 1) - 1

Amounts == MinAmount..MaxAmount

\* The value a two's complement machine keeps of x.
Wrap(x) == ((x - MinAmount) % (2 ^ AmountBits)) + MinAmount

\* The division of C++ (towards zero) by a positive b.
TruncDiv(a, b) == IF a >= 0 THEN a \div b ELSE -((-a) \div b)

\* GetTotalSat as a build with wrapping arithmetic computes it.  "fatal"
\* is the CHECK_GT on the units.
GetTotalSat(price, units) ==
  LET total == Wrap(price * units)
  IN  [fatal |-> units <= 0,
       ok |-> IF units <= 0 THEN FALSE ELSE TruncDiv(total, units) = price,
       total |-> total]

\* What GetTotalSat can do: if price * units overflows, the signed
\* multiplication has undefined behaviour, and a build may wrap, may trap
\* at the multiplication, or may fold (price * units) / units != price
\* to false.
GetTotalSatBuilds(price, units) ==
  LET wrapping == GetTotalSat(price, units)
  IN  IF price * units \in Amounts THEN {wrapping}
      ELSE {wrapping,
            [wrapping EXCEPT !.fatal = TRUE, !.ok = FALSE],
            [wrapping EXCEPT !.ok = ~wrapping.fatal]}

MatchesAddress(out, addr) == out.addr = addr

IsExpectedNameOutput(out, seller, buyer, asset, units, sd) ==
  /\ out.nameOp # NoNameOp
  /\ out.nameOp.op = "name_update"
  /\ out.nameOp.name = GetXayaName(seller)
  /\ out.nameOp.value = GetNameUpdateValue(seller, buyer, asset, units)
  /\ MatchesAddress(out, sd.name_address)

IsExpectedChiOutput(out, total, sd) ==
  /\ out.nameOp = NoNameOp
  /\ MatchesAddress(out, sd.chi_address)
  /\ out.value >= total

CheckForSellerOutputs(psbt, sd, seller, buyer, asset, price, units) ==
  LET tot == GetTotalSat(price, units)
      foundChi == \/ tot.total = 0
                  \/ \E i \in DOMAIN psbt.vout :
                       IsExpectedChiOutput(psbt.vout[i], tot.total, sd)
      foundName == \E i \in DOMAIN psbt.vout :
                     IsExpectedNameOutput(psbt.vout[i], seller, buyer,
                                          asset, units, sd)
  IN  tot.ok /\ foundChi /\ foundName

\* CheckForSellerOutputs when GetTotalSat answers tot: "fatal" is the
\* CHECK of GetTotalSat or CHECK_GE (expectedTotal, 0).
SellerOutputsWith(tot, psbt, sd, seller, buyer, asset, units) ==
  LET foundChi == \/ tot.total = 0
                  \/ \E i \in DOMAIN psbt.vout :
                       IsExpectedChiOutput(psbt.vout[i], tot.total, sd)
      foundName == \E i \in DOMAIN psbt.vout :
                     IsExpectedNameOutput(psbt.vout[i], seller, buyer,
                                          asset, units, sd)
  IN  IF tot.fatal THEN [fatal |-> TRUE, ok |-> FALSE]
      ELSE IF ~tot.ok THEN [fatal |-> FALSE, ok |-> FALSE]
      ELSE IF tot.total < 0 THEN [fatal |-> TRUE, ok |-> FALSE]
      ELSE [fatal |-> FALSE, ok |-> foundChi /\ foundName]

\* What CheckForSellerOutputs can do, over the builds of GetTotalSat.
CheckForSellerOutputsBuilds(psbt, sd, seller, buyer, asset, price, units) ==
  {SellerOutputsWith(tot, psbt, sd, seller, buyer, asset, units) :
     tot \in GetTotalSatBuilds(price, units)}

\* A check that looks for the name input only.
CheckForSellerSignature_mut(before, after, sd) ==
  \E i \in DOMAIN before.vin : before.vin[i] = sd.name_output

CheckForSellerSignature(before, after, sd) ==
  /\ \E i \in DOMAIN before.vin : before.vin[i] = sd.name_output
  /\ LET inputIndex == CHOOSE i \in DOMAIN before.vin :
                         /\ before.vin[i] = sd.name_output
                         /\ \A j \in DOMAIN before.vin :
                              before.vin[j] = sd.name_output => i <= j
     IN  \A i \in DOMAIN before.sigs :
           i # inputIndex => before.sigs[i] = after.sigs[i]

CheckForBuyerSignature(before, after) ==
  LET count == Cardinality({i \in DOMAIN before.sigs :
                              before.sigs[i] # after.sigs[i]})
  IN  count + 1 = Len(before.sigs)

\* IsBlockAncestor: the number of getblockheader steps from child back to
\* ancestor, looking at most n blocks back (Unset: false is returned);
\* prev[b] is previousblockhash of b, Unset for the genesis block.
RECURSIVE AncestorSteps(_, _, _, _)
AncestorSteps(prev, ancestor, child, n) ==
  IF ancestor = child THEN 0
  ELSE IF n = 0 THEN Unset
  ELSE IF prev[child] = Unset THEN Unset
  ELSE LET d == AncestorSteps(prev, ancestor, prev[child], n - 1)
       IN  IF d = Unset THEN Unset ELSE d + 1

IsBlockAncestor(prev, ancestor, child, n) ==
  AncestorSteps(prev, ancestor, child, n) # Unset

\* The buyer's check without the walk over the ancestors.
CheckForBuyerTrade_mut(c) ==
  /\ c.isAsset
  /\ c.canBuy
  /\ c.utxoFound
  /\ c.canSell

\* The chain and game-state answers the buyer's check looks at: c.dist is
\* the number of steps from the GSP's block back to the block of the UTXO
\* (Unset if it is not among the ancestors that can be reached).  On
\* success the check hands back the seller's name outpoint.
CheckForBuyerTrade(c) ==
  /\ c.isAsset
  /\ c.canBuy
  /\ c.utxoFound
  /\ c.canSell
  /\ c.dist # Unset
  /\ c.dist <= MAX_BLOCK_ANCESTORS_CHECKED

(***************************************************************************)
(* The wallet's PSBT operations, as far as the program relies on them.     *)
(***************************************************************************)
AllSigned(psbt) == \A i \in DOMAIN psbt.sigs : psbt.sigs[i]

\* walletprocesspsbt: the wallet signs every input it is able to sign.
SignPsbt(psbt, canSign) ==
  [psbt EXCEPT !.sigs = [i \in DOMAIN psbt.sigs |->
                           psbt.sigs[i] \/ psbt.vin[i] \in canSign]]

\* combinepsbt of two PSBTs of the same transaction.
CombinePsbt(a, b) ==
  [a EXCEPT !.sigs = [i \in DOMAIN a.sigs |-> a.sigs[i] \/ b.sigs[i]]]

SameTx(a, b) == a.vin = b.vin /\ a.vout = b.vout

(***************************************************************************)
(* Trade: the wrapper around one TradeState                                *)
(***************************************************************************)
\* The TradeState protocol buffer of a trade record (without "locks").
Pb(t) == [order |-> t.order, units |-> t.units,
          counterparty |-> t.counterparty, start_time |-> t.start_time,
          state |-> t.state, has_seller_data |-> t.has_seller_data,
          seller_data |-> t.seller_data, our_psbt |-> t.our_psbt,
          their_psbt |-> t.their_psbt,
          conflict_height |-> t.conflict_height]

GetIdentifier(t) == <<t.order.account, t.order.id>>

GetRole(t, account) ==
  IF t.order.account = account THEN "MAKER" ELSE "TAKER"

GetOrderType(t, account) ==
  IF GetRole(t, account) = "MAKER" THEN t.order.type
  ELSE IF t.order.type = "BID" THEN "ASK" ELSE "BID"

Buyer(t, account) ==
  IF GetOrderType(t, account) = "BID" THEN account ELSE t.counterparty

Seller(t, account) ==
  IF GetOrderType(t, account) = "BID" THEN t.counterparty ELSE account

IsFinalised(t) == t.state \in {"ABANDONED", "SUCCESS", "FAILED"}

GetPublicInfo(t, account) ==
  [state |-> t.state, start_time |-> t.start_time,
   counterparty |-> t.counterparty, type |-> GetOrderType(t, account),
   asset |-> t.order.asset, units |-> t.units,
   price_sat |-> t.order.price_sat, role |-> GetRole(t, account)]

\* A Matches that does not look at the counterparty.
Matches_mut(t, msg) == msg.identifier = GetIdentifier(t)

Matches(t, msg) ==
  msg.counterparty = t.counterparty /\ msg.identifier = GetIdentifier(t)

InitProcessingMessage(t) ==
  [NoMsg EXCEPT !.counterparty = t.counterparty,
                !.identifier = GetIdentifier(t)]

SetTakingOrder(t, msg) ==
  [msg EXCEPT !.has_taking_order = TRUE,
              !.taking_order = [id |-> t.order.id, units |-> t.units]]

\* A MergeSellerData that also takes seller data when we are the seller.
MergeSellerData_any(t, account, sd) ==
  IF t.has_seller_data THEN t
  ELSE IF sd.name_address = NoStr \/ sd.chi_address = NoStr
            \/ sd.name_output # NoStr THEN t
  ELSE IF sd.name_address = sd.chi_address THEN t
  ELSE [t EXCEPT !.has_seller_data = TRUE, !.seller_data = sd]

\* A MergeSellerData that overwrites seller data held already.
MergeSellerData_mut(t, account, sd) ==
  IF GetOrderType(t, account) = "ASK" THEN t
  ELSE IF sd.name_address = NoStr \/ sd.chi_address = NoStr
            \/ sd.name_output # NoStr THEN t
  ELSE IF sd.name_address = sd.chi_address THEN t
  ELSE [t EXCEPT !.has_seller_data = TRUE, !.seller_data = sd]

MergeSellerData(t, account, sd) ==
  IF GetOrderType(t, account) = "ASK" THEN t
  ELSE IF t.has_seller_data THEN t
  ELSE IF sd.name_address = NoStr \/ sd.chi_address = NoStr
            \/ sd.name_output # NoStr THEN t
  ELSE IF sd.name_address = sd.chi_address THEN t
  ELSE [t EXCEPT !.has_seller_data = TRUE, !.seller_data = sd]

\* A MergePsbt that stores nothing.
MergePsbt_drop(t, psbt) == t

MergePsbt(t, psbt) ==
  IF t.their_psbt # NoPsbt THEN t ELSE [t EXCEPT !.their_psbt = psbt]

\* HandleMessage without the check of the state.
HandleMessage_mut(t, account, msg) ==
  LET t1 == IF msg.has_seller_data
            THEN MergeSellerData(t, account, msg.seller_data) ELSE t
  IN  IF msg.has_psbt THEN MergePsbt(t1, msg.psbt) ELSE t1

HandleMessage(t, account, msg) ==
  IF t.state # "INITIATED" THEN t
  ELSE LET t1 == IF msg.has_seller_data
                 THEN MergeSellerData(t, account, msg.seller_data) ELSE t
       IN  IF msg.has_psbt THEN MergePsbt(t1, msg.psbt) ELSE t1

(***************************************************************************)
(* The outcome of a call that talks to the wallet: the trade afterwards,   *)
(* the return value, the reply, the wallet's locked outputs, what was      *)
(* broadcast and how the call ended ("ok", "threw": a JSON-RPC exception   *)
(* left the call, "fatal": a CHECK failed).                                *)
(***************************************************************************)
Res(t, ret, reply, wl, bcast, end) ==
  [t |-> t, ret |-> ret, reply |-> reply, wl |-> wl, bcast |-> bcast,
   end |-> end]

\* lockunspent as called by LockUnspent: an exception means "false".
LockUnspent(wl, lock, out, x) ==
  IF x.fault = "lockunspent" THEN [ok |-> FALSE, wl |-> wl]
  ELSE IF lock
  THEN IF out \in wl THEN [ok |-> FALSE, wl |-> wl]
       ELSE [ok |-> TRUE, wl |-> wl \cup {out}]
  ELSE IF out \notin wl THEN [ok |-> FALSE, wl |-> wl]
       ELSE [ok |-> TRUE, wl |-> wl \ {out}]

\* lockunspent for every input of the decoded PSBT; failures are ignored.
UnlockPsbtInputs(wl, psbt, x) ==
  IF x.fault = "lockunspent" THEN wl ELSE wl \ SeqToSet(psbt.vin)

CreateSellerData(t, account, wl, x) ==
  IF GetOrderType(t, account) # "ASK" THEN Res(t, FALSE, NoMsg, wl, {}, "ok")
  ELSE IF t.has_seller_data THEN Res(t, FALSE, NoMsg, wl, {}, "ok")
  ELSE IF x.fault = "name_show" THEN Res(t, FALSE, NoMsg, wl, {}, "threw")
  ELSE LET l == LockUnspent(wl, TRUE, x.nameOut, x)
           tl == [t EXCEPT !.locks = @ \cup {x.nameOut}]
       IN  IF ~l.ok THEN Res(t, FALSE, NoMsg, wl, {}, "ok")
           ELSE IF x.fault = "getnewaddress"
           THEN Res(tl, FALSE, NoMsg, l.wl, {}, "threw")
           ELSE Res([tl EXCEPT !.has_seller_data = TRUE,
                               !.seller_data =
                                  [name_output |-> x.nameOut,
                                   name_address |-> x.addrN,
                                   chi_address |-> x.addrC]],
                    TRUE, NoMsg, l.wl, {}, "ok")

\* The transaction the buyer builds: the wallet-funded coin part joined
\* with the name part.
ConstructTransaction(t, account, nameIn, coin) ==
  LET sd == t.seller_data
      tot == GetTotalSat(t.order.price_sat, t.units)
      chiOut == [addr |-> sd.chi_address, value |-> tot.total,
                 nameOp |-> NoNameOp]
      nameOutput ==
        [addr |-> sd.name_address, value |-> NAME_VALUE,
         nameOp |-> [op |-> "name_update",
                     name |-> GetXayaName(t.counterparty),
                     value |-> GetNameUpdateValue(Seller(t, account),
                                                  Buyer(t, account),
                                                  t.order.asset, t.units)]]
  IN  [vin |-> <<coin, nameIn>>, vout |-> <<chiOut, nameOutput>>,
       sigs |-> <<FALSE, FALSE>>]

\* HasReplyFinal that broadcasts without looking at finalizepsbt's
\* "complete".
HasReplyFinal_early(t, account, wl, x) ==
  IF t.our_psbt = NoPsbt THEN Res(t, FALSE, NoMsg, wl, {}, "fatal")
  ELSE IF GetRole(t, account) = "TAKER"
  THEN Res([t EXCEPT !.state = "PENDING"], TRUE,
           [InitProcessingMessage(t) EXCEPT !.has_psbt = TRUE,
                                            !.psbt = t.our_psbt],
           wl, {}, "ok")
  ELSE IF t.their_psbt = NoPsbt THEN Res(t, FALSE, NoMsg, wl, {}, "ok")
  ELSE IF /\ GetOrderType(t, account) = "BID"
          /\ (x.fault = "combinepsbt" \/ ~SameTx(t.their_psbt, t.our_psbt))
  THEN Res(t, FALSE, NoMsg, wl, {}, "threw")
  ELSE LET finalPsbt == IF GetOrderType(t, account) = "BID"
                        THEN CombinePsbt(t.their_psbt, t.our_psbt)
                        ELSE t.our_psbt
       IN  IF x.fault = "finalizepsbt"
           THEN Res(t, FALSE, NoMsg, wl, {}, "threw")
           ELSE IF x.fault = "sendrawtransaction"
           THEN Res(t, FALSE, NoMsg, wl, {}, "threw")
           ELSE Res([t EXCEPT !.state = "PENDING"], FALSE, NoMsg, wl,
                    {finalPsbt}, "ok")

\* Lines 561-624 of HasReply: share our PSBT as taker, or finalise and
\* broadcast as maker.
HasReplyFinal(t, account, wl, x) ==
  IF t.our_psbt = NoPsbt THEN Res(t, FALSE, NoMsg, wl, {}, "fatal")
  ELSE IF GetRole(t, account) = "TAKER"
  THEN Res([t EXCEPT !.state = "PENDING"], TRUE,
           [InitProcessingMessage(t) EXCEPT !.has_psbt = TRUE,
                                            !.psbt = t.our_psbt],
           wl, {}, "ok")
  ELSE IF t.their_psbt = NoPsbt THEN Res(t, FALSE, NoMsg, wl, {}, "ok")
  ELSE IF /\ GetOrderType(t, account) = "BID"
          /\ (x.fault = "combinepsbt" \/ ~SameTx(t.their_psbt, t.our_psbt))
  THEN Res(t, FALSE, NoMsg, wl, {}, "threw")
  ELSE LET finalPsbt == IF GetOrderType(t, account) = "BID"
                        THEN CombinePsbt(t.their_psbt, t.our_psbt)
                        ELSE t.our_psbt
       IN  IF x.fault = "finalizepsbt"
           THEN Res(t, FALSE, NoMsg, wl, {}, "threw")
           ELSE IF ~AllSigned(finalPsbt)
           THEN Res(t, FALSE, NoMsg, wl, {}, "ok")
           ELSE IF x.fault = "sendrawtransaction"
           THEN Res(t, FALSE, NoMsg, wl, {}, "threw")
           ELSE Res([t EXCEPT !.state = "PENDING"], FALSE, NoMsg, wl,
                    {finalPsbt}, "ok")

\* Lines 465-513 of HasReply: the seller checks and signs the buyer's PSBT.
HasReplySeller(t, account, wl, x) ==
  LET sd == t.seller_data
      tot == GetTotalSat(t.order.price_sat, t.units)
      psbt == SignPsbt(t.their_psbt, x.canSign)
      complete == AllSigned(psbt)
  IN  IF sd.chi_address = NoStr \/ sd.name_address = NoStr
      THEN Res(t, FALSE, NoMsg, wl, {}, "fatal")
      ELSE IF x.fault = "seller_decode"
      THEN Res(t, FALSE, NoMsg, wl, {}, "threw")
      ELSE IF tot.fatal THEN Res(t, FALSE, NoMsg, wl, {}, "fatal")
      ELSE IF ~CheckForSellerOutputs(t.their_psbt, sd, Seller(t, account),
                                     Buyer(t, account), t.order.asset,
                                     t.order.price_sat, t.units)
      THEN Res(t, FALSE, NoMsg, wl, {}, "ok")
      ELSE IF x.fault = "seller_sign"
      THEN Res(t, FALSE, NoMsg, wl, {}, "threw")
      ELSE IF sd.name_output = NoStr
      THEN Res(t, FALSE, NoMsg, wl, {}, "fatal")
      ELSE IF x.fault = "seller_decode2"
      THEN Res(t, FALSE, NoMsg, wl, {}, "threw")
      ELSE IF ~CheckForSellerSignature(t.their_psbt, psbt, sd)
      THEN Res(t, FALSE, NoMsg, wl, {}, "ok")
      ELSE IF GetRole(t, account) = "MAKER" /\ ~complete
      THEN Res(t, FALSE, NoMsg, wl, {}, "ok")
      ELSE IF GetRole(t, account) = "TAKER" /\ complete
      THEN Res(t, FALSE, NoMsg, wl, {}, "ok")
      ELSE HasReplyFinal([t EXCEPT !.our_psbt = psbt], account, wl, x)

\* Lines 515-559 of HasReply: the buyer checks the trade, builds and signs
\* the transaction.
HasReplyBuyer(t, account, wl, x) ==
  LET sd == t.seller_data
      tot == GetTotalSat(t.order.price_sat, t.units)
      wl1 == wl \cup {x.coin}
      tl == [t EXCEPT !.locks = @ \cup {x.coin}]
      unsignedPsbt == ConstructTransaction(t, account, x.sellerOut, x.coin)
      signedPsbt == SignPsbt(unsignedPsbt, x.canSign)
  IN  IF x.fault = "buyer_check" THEN Res(t, FALSE, NoMsg, wl, {}, "threw")
      ELSE IF ~CheckForBuyerTrade(x.chk)
      THEN Res(t, FALSE, NoMsg, wl, {}, "ok")
      ELSE IF sd.chi_address = NoStr \/ sd.name_address = NoStr
      THEN Res(t, FALSE, NoMsg, wl, {}, "fatal")
      ELSE IF tot.fatal \/ ~tot.ok
      THEN Res(t, FALSE, NoMsg, wl, {}, "fatal")
      ELSE IF x.fault = "fund" \/ x.coin \in wl
      THEN Res(t, FALSE, NoMsg, wl, {}, "threw")
      ELSE IF x.fault \in {"build", "buyer_sign", "buyer_decode"}
      THEN Res(tl, FALSE, NoMsg, wl1, {}, "threw")
      ELSE IF ~CheckForBuyerSignature(unsignedPsbt, signedPsbt)
      THEN IF x.fault = "unlock_decode"
           THEN Res(tl, FALSE, NoMsg, wl1, {}, "threw")
           ELSE LET wl2 == UnlockPsbtInputs(wl1, signedPsbt, x)
                IN  Res([tl EXCEPT !.locks = @ \cap wl2], FALSE, NoMsg,
                        wl2, {}, "ok")
      ELSE IF AllSigned(signedPsbt)
      THEN Res(tl, FALSE, NoMsg, wl1, {}, "fatal")
      ELSE LET t2 == [tl EXCEPT !.our_psbt = signedPsbt]
           IN  IF GetRole(t, account) = "MAKER"
               THEN Res(t2, TRUE,
                        [InitProcessingMessage(t) EXCEPT
                           !.has_psbt = TRUE, !.psbt = unsignedPsbt],
                        wl1, {}, "ok")
               ELSE HasReplyFinal(t2, account, wl1, x)

HasReply(t, account, wl, x) ==
  IF t.state # "INITIATED" THEN Res(t, FALSE, NoMsg, wl, {}, "ok")
  ELSE LET c == CreateSellerData(t, account, wl, x)
       IN  IF c.end # "ok" THEN c
           ELSE IF c.ret
           THEN Res(c.t, TRUE,
                    [InitProcessingMessage(t) EXCEPT
                       !.has_seller_data = TRUE,
                       !.seller_data = [c.t.seller_data EXCEPT
                                          !.name_output = NoStr]],
                    c.wl, {}, "ok")
           ELSE IF ~t.has_seller_data
           THEN Res(t, FALSE, NoMsg, wl, {}, "ok")
           ELSE IF GetOrderType(t, account) = "ASK" /\ t.their_psbt = NoPsbt
           THEN Res(t, FALSE, NoMsg, wl, {}, "ok")
           ELSE IF GetOrderType(t, account) = "ASK" /\ t.our_psbt = NoPsbt
           THEN HasReplySeller(t, account, wl, x)
           ELSE IF GetOrderType(t, account) = "BID" /\ t.our_psbt = NoPsbt
           THEN HasReplyBuyer(t, account, wl, x)
           ELSE HasReplyFinal(t, account, wl, x)

\* Update with the depth of a confirmation counted one block short.
Update_shallow(t, time, x) ==
  IF t.state = "INITIATED"
  THEN IF time - t.start_time > TradeTimeout
       THEN [t |-> [t EXCEPT !.state = "ABANDONED"], end |-> "ok"]
       ELSE [t |-> t, end |-> "ok"]
  ELSE IF t.state # "PENDING" THEN [t |-> t, end |-> "ok"]
  ELSE IF t.our_psbt = NoPsbt THEN [t |-> t, end |-> "fatal"]
  ELSE IF x.fault \in {"update_decode", "checktrade"}
  THEN [t |-> t, end |-> "threw"]
  ELSE IF x.gsp.state = "confirmed" /\ x.gsp.height > x.gsp.cur
  THEN [t |-> t, end |-> "fatal"]
  ELSE IF /\ x.gsp.state = "confirmed"
          /\ x.gsp.height + Confirmations <= x.gsp.cur + 2
  THEN [t |-> [t EXCEPT !.state = "SUCCESS"], end |-> "ok"]
  ELSE IF x.gsp.state # "unknown"
  THEN [t |-> [t EXCEPT !.conflict_height = Unset], end |-> "ok"]
  ELSE IF x.fault = "gettxout" THEN [t |-> t, end |-> "threw"]
  ELSE IF ~\E i \in DOMAIN t.our_psbt.vin : t.our_psbt.vin[i] \in x.spent
  THEN [t |-> [t EXCEPT !.conflict_height = Unset], end |-> "ok"]
  ELSE IF t.conflict_height = Unset
  THEN [t |-> [t EXCEPT !.conflict_height = x.gsp.cur], end |-> "ok"]
  ELSE IF t.conflict_height + Confirmations <= x.gsp.cur + 1
  THEN [t |-> [t EXCEPT !.state = "FAILED"], end |-> "ok"]
  ELSE [t |-> t, end |-> "ok"]

\* Update that keeps a recorded conflict_height when the inputs are found
\* unspent again.
Update_sticky(t, time, x) ==
  IF t.state = "INITIATED"
  THEN IF time - t.start_time > TradeTimeout
       THEN [t |-> [t EXCEPT !.state = "ABANDONED"], end |-> "ok"]
       ELSE [t |-> t, end |-> "ok"]
  ELSE IF t.state # "PENDING" THEN [t |-> t, end |-> "ok"]
  ELSE IF t.our_psbt = NoPsbt THEN [t |-> t, end |-> "fatal"]
  ELSE IF x.fault \in {"update_decode", "checktrade"}
  THEN [t |-> t, end |-> "threw"]
  ELSE IF x.gsp.state = "confirmed" /\ x.gsp.height > x.gsp.cur
  THEN [t |-> t, end |-> "fatal"]
  ELSE IF /\ x.gsp.state = "confirmed"
          /\ x.gsp.height + Confirmations <= x.gsp.cur + 1
  THEN [t |-> [t EXCEPT !.state = "SUCCESS"], end |-> "ok"]
  ELSE IF x.gsp.state # "unknown"
  THEN [t |-> [t EXCEPT !.conflict_height = Unset], end |-> "ok"]
  ELSE IF x.fault = "gettxout" THEN [t |-> t, end |-> "threw"]
  ELSE IF ~\E i \in DOMAIN t.our_psbt.vin : t.our_psbt.vin[i] \in x.spent
  THEN [t |-> t, end |-> "ok"]
  ELSE IF t.conflict_height = Unset
  THEN [t |-> [t EXCEPT !.conflict_height = x.gsp.cur], end |-> "ok"]
  ELSE IF t.conflict_height + Confirmations <= x.gsp.cur + 1
  THEN [t |-> [t EXCEPT !.state = "FAILED"], end |-> "ok"]
  ELSE [t |-> t, end |-> "ok"]

\* Update: x.gsp is the GSP's checktrade answer, x.spent the inputs that
\* gettxout no longer finds.
Update(t, time, x) ==
  IF t.state = "INITIATED"
  THEN IF time - t.start_time > TradeTimeout
       THEN [t |-> [t EXCEPT !.state = "ABANDONED"], end |-> "ok"]
       ELSE [t |-> t, end |-> "ok"]
  ELSE IF t.state # "PENDING" THEN [t |-> t, end |-> "ok"]
  ELSE IF t.our_psbt = NoPsbt THEN [t |-> t, end |-> "fatal"]
  ELSE IF x.fault \in {"update_decode", "checktrade"}
  THEN [t |-> t, end |-> "threw"]
  ELSE IF x.gsp.state = "confirmed" /\ x.gsp.height > x.gsp.cur
  THEN [t |-> t, end |-> "fatal"]
  ELSE IF /\ x.gsp.state = "confirmed"
          /\ x.gsp.height + Confirmations <= x.gsp.cur + 1
  THEN [t |-> [t EXCEPT !.state = "SUCCESS"], end |-> "ok"]
  ELSE IF x.gsp.state # "unknown"
  THEN [t |-> [t EXCEPT !.conflict_height = Unset], end |-> "ok"]
  ELSE IF x.fault = "gettxout" THEN [t |-> t, end |-> "threw"]
  ELSE IF ~\E i \in DOMAIN t.our_psbt.vin : t.our_psbt.vin[i] \in x.spent
  THEN [t |-> [t EXCEPT !.conflict_height = Unset], end |-> "ok"]
  ELSE IF t.conflict_height = Unset
  THEN [t |-> [t EXCEPT !.conflict_height = x.gsp.cur], end |-> "ok"]
  ELSE IF t.conflict_height + Confirmations <= x.gsp.cur + 1
  THEN [t |-> [t EXCEPT !.state = "FAILED"], end |-> "ok"]
  ELSE [t |-> t, end |-> "ok"]

(***************************************************************************)
(* MyOrders: the own orders, a map from the order id to the Order.  A      *)
(* stored order has no account and no id; max_units is 0 when it is not    *)
(* set.                                                                    *)
(***************************************************************************)
NoOrder == [account |-> NoStr, id |-> Unset, asset |-> NoStr, type |-> NoStr,
            price_sat |-> Unset, min_units |-> Unset, max_units |-> 0,
            locked |-> FALSE]

\* The validator without the conditions on min_units.
ValidateOrder_mut(account, o, gameOk) ==
  IF o.max_units = 0 THEN FALSE
  ELSE IF o.price_sat = Unset THEN FALSE
  ELSE gameOk

\* The validator of the daemon; gameOk is the answer of the asset spec
\* (IsAsset and CanBuy or CanSell for max_units).
ValidateOrder(account, o, gameOk) ==
  IF o.max_units = 0 THEN FALSE
  ELSE IF o.min_units # Unset /\ (o.min_units = 0 \/ o.min_units > o.max_units)
  THEN FALSE
  ELSE IF o.price_sat = Unset THEN FALSE
  ELSE gameOk

\* min_units as the views render it: 1 when the field is not set
\* (ProtoToJson<proto::Order>).
MinUnits(o) == IF o.min_units = Unset THEN 1 ELSE o.min_units

\* The locked section of RunRefresh: the orders that are no longer valid
\* are dropped; bad are the ids whose orders the asset spec rejects now.
RefreshValidate(orders, account, bad) ==
  LET keep == {i \in DOMAIN orders :
                 ValidateOrder(account, orders[i], i \notin bad)}
  IN  [i \in keep |-> orders[i]]

InternalGetOrders(orders, includeLocked) ==
  LET keep == {i \in DOMAIN orders : includeLocked \/ ~orders[i].locked}
  IN  [i \in keep |-> orders[i]]

\* RunRefresh without interleaving: the orders afterwards and the set
\* handed to UpdateOrders.
RunRefresh(orders, account, bad) ==
  LET o1 == RefreshValidate(orders, account, bad)
  IN  [orders |-> o1, published |-> InternalGetOrders(o1, FALSE)]

\* The locked section of Add.
Add(orders, nfi, account, o, gameOk) ==
  IF ~ValidateOrder(account, o, gameOk)
  THEN [added |-> FALSE, orders |-> orders, next_free_id |-> nfi]
  ELSE [added |-> TRUE,
        orders |-> [i \in DOMAIN orders \cup {nfi} |->
                      IF i = nfi THEN [o EXCEPT !.account = NoStr,
                                                !.id = Unset]
                      ELSE orders[i]],
        next_free_id |-> nfi + 1]

\* The locked section of RemoveById.
RemoveById(orders, id) == [i \in DOMAIN orders \ {id} |-> orders[i]]

\* A TryLock that does not look at the lock flag.
TryLock_mut(orders, account, id) ==
  IF id \notin DOMAIN orders
  THEN [res |-> FALSE, out |-> NoOrder, orders |-> orders]
  ELSE [res |-> TRUE,
        out |-> [orders[id] EXCEPT !.account = account, !.id = id],
        orders |-> [orders EXCEPT ![id].locked = TRUE]]

\* The locked section of TryLock; out is copied before the flag is set.
TryLock(orders, account, id) ==
  IF id \notin DOMAIN orders
  THEN [res |-> FALSE, out |-> NoOrder, orders |-> orders]
  ELSE IF orders[id].locked
  THEN [res |-> FALSE, out |-> NoOrder, orders |-> orders]
  ELSE [res |-> TRUE,
        out |-> [orders[id] EXCEPT !.account = account, !.id = id],
        orders |-> [orders EXCEPT ![id].locked = TRUE]]

\* The locked section of Unlock; "fatal" is one of its two CHECKs.
Unlock(orders, id) ==
  IF id \notin DOMAIN orders THEN [fatal |-> TRUE, orders |-> orders]
  ELSE IF ~orders[id].locked THEN [fatal |-> TRUE, orders |-> orders]
  ELSE [fatal |-> FALSE, orders |-> [orders EXCEPT ![id].locked = FALSE]]

(***************************************************************************)
(* Post-finalisation of a trade (run by the updater outside the lock).     *)
(* The result: own orders, next free id, the set last handed to            *)
(* UpdateOrders, the wallet's locked outputs and how the call ended.       *)
(***************************************************************************)
Post(orders, nfi, pub, wl, end) ==
  [orders |-> orders, next_free_id |-> nfi, published |-> pub, wl |-> wl,
   end |-> end]

\* A HandleSuccess that re-adds the order without reducing max_units.
HandleSuccess_mut(t, account, orders, nfi, pub, wl, x) ==
  IF GetRole(t, account) # "MAKER" THEN Post(orders, nfi, pub, wl, "ok")
  ELSE LET r1 == RunRefresh(RemoveById(orders, t.order.id), account, x.bad)
           newOrder == [t.order EXCEPT !.id = Unset]
           a == Add(r1.orders, nfi, account, newOrder, nfi \notin x.bad)
           r2 == RunRefresh(a.orders, account, x.bad)
       IN  IF /\ newOrder.max_units > 0
              /\ newOrder.max_units >= Val(newOrder.min_units)
           THEN IF a.added
                THEN Post(r2.orders, a.next_free_id, r2.published, wl, "ok")
                ELSE Post(r1.orders, nfi, r1.published, wl, "ok")
           ELSE Post(r1.orders, nfi, r1.published, wl, "ok")

HandleSuccess(t, account, orders, nfi, pub, wl, x) ==
  IF GetRole(t, account) # "MAKER" THEN Post(orders, nfi, pub, wl, "ok")
  ELSE LET r1 == RunRefresh(RemoveById(orders, t.order.id), account, x.bad)
           newOrder == [t.order EXCEPT !.id = Unset,
                                       !.max_units = @ - t.units]
           a == Add(r1.orders, nfi, account, newOrder, nfi \notin x.bad)
           r2 == RunRefresh(a.orders, account, x.bad)
       IN  IF /\ newOrder.max_units > 0
              /\ newOrder.max_units >= Val(newOrder.min_units)
           THEN IF a.added
                THEN Post(r2.orders, a.next_free_id, r2.published, wl, "ok")
                ELSE Post(r1.orders, nfi, r1.published, wl, "ok")
           ELSE Post(r1.orders, nfi, r1.published, wl, "ok")

HandleFailure(t, account, orders, nfi, pub, wl, x) ==
  LET u == Unlock(orders, t.order.id)
      r == RunRefresh(u.orders, account, x.bad)
      maker == GetRole(t, account) = "MAKER"
      orders1 == IF maker THEN r.orders ELSE orders
      pub1 == IF maker THEN r.published ELSE pub
      wl1 == IF t.seller_data.name_output # NoStr
             THEN LockUnspent(wl, FALSE, t.seller_data.name_output, x).wl
             ELSE wl
  IN  IF maker /\ u.fatal THEN Post(orders, nfi, pub, wl, "fatal")
      ELSE IF GetOrderType(t, account) = "BID" /\ t.our_psbt # NoPsbt
      THEN IF x.fault = "unlock_decode"
           THEN Post(orders1, nfi, pub1, wl1, "threw")
           ELSE Post(orders1, nfi, pub1,
                     UnlockPsbtInputs(wl1, t.our_psbt, x), "ok")
      ELSE Post(orders1, nfi, pub1, wl1, "ok")

(***************************************************************************)
(* TradeManager                                                            *)
(***************************************************************************)
\* A new TradeState as TakeOrder and OrderTaken fill it in.
NewTrade(o, units, counterparty, time) ==
  [order |-> o, units |-> units, counterparty |-> counterparty,
   start_time |-> time, state |-> "INITIATED",
   has_seller_data |-> FALSE, seller_data |-> NoSellerData,
   our_psbt |-> NoPsbt, their_psbt |-> NoPsbt, conflict_height |-> Unset,
   locks |-> {}]

CheckOrder(o, units) ==
  IF units > o.max_units \/ units < Val(o.min_units) THEN FALSE
  ELSE IF \/ o.account = NoStr \/ o.id = Unset \/ o.asset = NoStr
          \/ o.type = NoStr \/ o.price_sat = Unset
  THEN FALSE
  ELSE TRUE

\* The result of a call of the manager: the return value, the reply, the
\* own orders and the set last handed to UpdateOrders, the active trades,
\* the wallet's locked outputs, what was broadcast and how the call ended
\* ("caught": in the catch block for JsonRpcException).
Pm(ok, reply, orders, pub, trs, wl, bcast, end) ==
  [ok |-> ok, reply |-> reply, orders |-> orders, published |-> pub,
   trades |-> trs, wl |-> wl, bcast |-> bcast, end |-> end]

\* TakeOrder: an exception of HasReply is caught, the trade is not added.
TakeOrder(orders, pub, trs, account, o, units, time, wl, x) ==
  LET data == NewTrade(o, units, o.account, time)
      r == HasReply(data, account, wl, x)
      msg == IF r.ret THEN r.reply ELSE InitProcessingMessage(data)
  IN  IF ~CheckOrder(o, units)
      THEN Pm(FALSE, NoMsg, orders, pub, trs, wl, {}, "ok")
      ELSE IF data.counterparty = account
      THEN Pm(FALSE, NoMsg, orders, pub, trs, wl, {}, "ok")
      ELSE IF r.end = "threw"
      THEN Pm(FALSE, NoMsg, orders, pub, trs, r.wl, {}, "caught")
      ELSE IF r.end = "fatal"
      THEN Pm(FALSE, NoMsg, orders, pub, trs, r.wl, {}, "fatal")
      ELSE Pm(TRUE, SetTakingOrder(data, msg), orders, pub,
              Append(trs, r.t), r.wl, r.bcast, "ok")

OrderTaken(trs, account, o, units, counterparty, time) ==
  IF ~CheckOrder(o, units) THEN [ok |-> FALSE, trades |-> trs, end |-> "ok"]
  ELSE IF o.account # account
  THEN [ok |-> FALSE, trades |-> trs, end |-> "fatal"]
  ELSE IF counterparty = account
  THEN [ok |-> FALSE, trades |-> trs, end |-> "ok"]
  ELSE [ok |-> TRUE,
        trades |-> Append(trs, NewTrade(o, units, counterparty, time)),
        end |-> "ok"]

\* A variant of ProcessForTrade whose catch block gives the trade up.
ProcessForTrade_mut(orders, pub, trs, account, msg, wl, x) ==
  IF ~\E i \in DOMAIN trs : Matches(trs[i], msg)
  THEN Pm(FALSE, NoMsg, orders, pub, trs, wl, {}, "ok")
  ELSE LET i == CHOOSE k \in DOMAIN trs :
                  /\ Matches(trs[k], msg)
                  /\ \A j \in DOMAIN trs : Matches(trs[j], msg) => k <= j
           r == HasReply(HandleMessage(trs[i], account, msg), account, wl, x)
           trs1 == [trs EXCEPT ![i] = r.t]
       IN  IF r.end = "fatal"
           THEN Pm(FALSE, NoMsg, orders, pub, trs, wl, {}, "fatal")
           ELSE IF r.end = "threw"
           THEN Pm(FALSE, NoMsg, orders, pub,
                   [trs1 EXCEPT ![i].state = "ABANDONED"], r.wl, {}, "caught")
           ELSE Pm(r.ret, r.reply, orders, pub, trs1, r.wl, r.bcast, "ok")

\* Lines 1064-1092 of ProcessMessage: the first trade that matches the
\* message handles it; an exception of HasReply is caught.
ProcessForTrade(orders, pub, trs, account, msg, wl, x) ==
  IF ~\E i \in DOMAIN trs : Matches(trs[i], msg)
  THEN Pm(FALSE, NoMsg, orders, pub, trs, wl, {}, "ok")
  ELSE LET i == CHOOSE k \in DOMAIN trs :
                  /\ Matches(trs[k], msg)
                  /\ \A j \in DOMAIN trs : Matches(trs[j], msg) => k <= j
           r == HasReply(HandleMessage(trs[i], account, msg), account, wl, x)
           trs1 == [trs EXCEPT ![i] = r.t]
       IN  IF r.end = "fatal"
           THEN Pm(FALSE, NoMsg, orders, pub, trs, wl, {}, "fatal")
           ELSE IF r.end = "threw"
           THEN Pm(FALSE, NoMsg, orders, pub, trs1, r.wl, {}, "caught")
           ELSE Pm(r.ret, r.reply, orders, pub, trs1, r.wl, r.bcast, "ok")

\* ProcessMessage; x.bad is what the asset spec rejects in the refreshes
\* of TryLock and Unlock.
ProcessMessage(orders, pub, trs, account, msg, time, wl, x) ==
  IF msg.counterparty = NoStr
  THEN Pm(FALSE, NoMsg, orders, pub, trs, wl, {}, "fatal")
  ELSE IF ~msg.has_taking_order
  THEN ProcessForTrade(orders, pub, trs, account, msg, wl, x)
  ELSE LET l == TryLock(orders, account, msg.taking_order.id)
           r1 == RunRefresh(l.orders, account, x.bad)
           ot == OrderTaken(trs, account, l.out, msg.taking_order.units,
                            msg.counterparty, time)
           u == Unlock(r1.orders, msg.taking_order.id)
           r2 == RunRefresh(u.orders, account, x.bad)
       IN  IF ~l.res THEN Pm(FALSE, NoMsg, orders, pub, trs, wl, {}, "ok")
           ELSE IF ot.end = "fatal"
           THEN Pm(FALSE, NoMsg, r1.orders, r1.published, trs, wl, {},
                   "fatal")
           ELSE IF ~ot.ok
           THEN IF u.fatal
                THEN Pm(FALSE, NoMsg, r1.orders, r1.published, trs, wl, {},
                        "fatal")
                ELSE Pm(FALSE, NoMsg, r2.orders, r2.published, trs, wl, {},
                        "ok")
           ELSE ProcessForTrade(r1.orders, r1.published, ot.trades, account,
                                msg, wl, x)

\* The locked section of UpdateAndArchiveTrades; xs[i] is what the wallet
\* and the GSP answer for the i-th trade.  No exception is caught here or
\* in the IntervalJob that runs it.
UpdateAndArchiveTrades(trs, arch, account, time, xs) ==
  LET u == [i \in DOMAIN trs |-> Update(trs[i], time, xs[i])]
      t == [i \in DOMAIN trs |-> u[i].t]
      fin == SelectSeq(t, IsFinalised)
      stillActive == SelectSeq(t, LAMBDA e : ~IsFinalised(e))
  IN  IF \E i \in DOMAIN trs : u[i].end # "ok"
      THEN [trades |-> trs, archive |-> arch, finalised |-> <<>>,
            end |-> IF \E i \in DOMAIN trs :
                         /\ u[i].end = "fatal"
                         /\ \A j \in 1..(i - 1) : u[j].end = "ok"
                    THEN "fatal" ELSE "threw"]
      ELSE [trades |-> stillActive,
            archive |-> arch \o [i \in DOMAIN fin |->
                                   GetPublicInfo(fin[i], account)],
            finalised |-> fin, end |-> "ok"]

(***************************************************************************)
(* Authenticator: jids and the decoding of their local part                *)
(***************************************************************************)
\* The names that occur in the model and their characters.
KnownNames == {"", "al", "bo", "me", "Me", "x-616c", "x-4d65", "x-"}

Bytes(name) ==
  CASE name = "" -> <<>>
    [] name = "al" -> <<"a", "l">>
    [] name = "bo" -> <<"b", "o">>
    [] name = "me" -> <<"m", "e">>
    [] name = "Me" -> <<"M", "e">>
    [] name = "x-616c" -> <<"x", "-", "6", "1", "6", "c">>
    [] name = "x-4d65" -> <<"x", "-", "4", "d", "6", "5">>
    [] name = "x-" -> <<"x", "-">>

\* The value of a char.
CharCode(c) ==
  CASE c = "-" -> 45 [] c = "1" -> 49 [] c = "4" -> 52 [] c = "5" -> 53
    [] c = "6" -> 54 [] c = "M" -> 77 [] c = "a" -> 97 [] c = "b" -> 98
    [] c = "c" -> 99 [] c = "d" -> 100 [] c = "e" -> 101 [] c = "l" -> 108
    [] c = "m" -> 109 [] c = "o" -> 111 [] c = "x" -> 120 [] OTHER -> 63

\* A name as the sequence of the values of its chars, and back.
Codes(name) == [i \in DOMAIN Bytes(name) |-> CharCode(Bytes(name)[i])]

FromBytes(b) ==
  IF \E n \in KnownNames : Codes(n) = b
  THEN CHOOSE n \in KnownNames : Codes(n) = b
  ELSE "?"

\* c is the value of the char, 0 .. 255.
IsSimpleChar(c) ==
  \/ c >= 48 /\ c <= 57
  \/ c >= 97 /\ c <= 122

HexCharValue(c) ==
  IF c >= 48 /\ c <= 57 THEN c - 48
  ELSE IF c >= 97 /\ c <= 102 THEN 10 + c - 97
  ELSE -1

ENCODED_PREFIX == <<120, 45>>

\* std::string::substr: at most len chars from the position pos on.
substr(str, pos, len) ==
  SubSeq(str, pos + 1, IF pos + len < Len(str) THEN pos + len ELSE Len(str))

\* DecodeName without the rejection of hex-encoded all-simple names.
DecodeName_mut(name) ==
  LET no == [ok |-> FALSE, decoded |-> <<>>]
      hexPart == substr(name, Len(ENCODED_PREFIX), Len(name))
      dec == [i \in 1..(Len(hexPart) \div 2) |->
                16 * HexCharValue(hexPart[2 * i - 1])
                  + HexCharValue(hexPart[2 * i])]
  IN  IF name = <<>> THEN no
      ELSE IF substr(name, 0, Len(ENCODED_PREFIX)) # ENCODED_PREFIX
      THEN IF \A i \in DOMAIN name : IsSimpleChar(name[i])
           THEN [ok |-> TRUE, decoded |-> name]
           ELSE no
      ELSE IF Len(hexPart) % 2 # 0 THEN no
      ELSE IF hexPart = <<>> THEN [ok |-> TRUE, decoded |-> <<>>]
      ELSE IF \E i \in DOMAIN hexPart : HexCharValue(hexPart[i]) = -1 THEN no
      ELSE [ok |-> TRUE, decoded |-> dec]

\* DecodeName for the name and the decoded name as sequences of char
\* values.
DecodeName(name) ==
  LET no == [ok |-> FALSE, decoded |-> <<>>]
      hexPart == substr(name, Len(ENCODED_PREFIX), Len(name))
      dec == [i \in 1..(Len(hexPart) \div 2) |->
                16 * HexCharValue(hexPart[2 * i - 1])
                  + HexCharValue(hexPart[2 * i])]
  IN  IF name = <<>> THEN no
      ELSE IF substr(name, 0, Len(ENCODED_PREFIX)) # ENCODED_PREFIX
      THEN IF \A i \in DOMAIN name : IsSimpleChar(name[i])
           THEN [ok |-> TRUE, decoded |-> name]
           ELSE no
      ELSE IF Len(hexPart) % 2 # 0 THEN no
      ELSE IF hexPart = <<>> THEN [ok |-> TRUE, decoded |-> <<>>]
      ELSE IF \E i \in DOMAIN hexPart : HexCharValue(hexPart[i]) = -1 THEN no
      ELSE IF \A i \in DOMAIN dec : IsSimpleChar(dec[i]) THEN no
      ELSE [ok |-> TRUE, decoded |-> dec]

XidServers == {"chat.xaya.io"}

\* Authenticate: the account of the jid, recorded as its last-seen jid.
Authenticate(jids, jid) ==
  LET d == DecodeName(Codes(jid.username))
      account == FromBytes(d.decoded)
  IN  IF jid.server \notin XidServers \/ ~d.ok
      THEN [ok |-> FALSE, account |-> NoStr, knownJids |-> jids]
      ELSE [ok |-> TRUE, account |-> account,
            knownJids |-> (account :> jid) @@ jids]

LookupJid(jids, account) ==
  IF account \in DOMAIN jids THEN [ok |-> TRUE, jid |-> jids[account]]
  ELSE [ok |-> FALSE, jid |-> NoStr]

(***************************************************************************)
(* OrderBook: the orders of the other accounts                             *)
(*   orders:  account -> [orders: id -> Order, lastUpdate]                 *)
(*   updates: the queue of update events [account, time]                   *)
(***************************************************************************)
OrderTimeout == 1

NoBook == [orders |-> <<>>, updates |-> <<>>]

AccountOrders(o, t) == [orders |-> o, lastUpdate |-> t]

UpdateEvent(a, t) == [account |-> a, time |-> t]

Erase(f, k) == [a \in DOMAIN f \ {k} |-> f[a]]

\* RunTimeout without the comparison of lastUpdate: every popped stamp
\* erases its account.
RECURSIVE RunTimeout_mut(_, _)
RunTimeout_mut(book, timeoutBefore) ==
  IF book.updates = <<>> \/ ~(Head(book.updates).time < timeoutBefore)
  THEN book
  ELSE LET account == Head(book.updates).account
           popped == [book EXCEPT !.updates = Tail(@)]
       IN  IF account \notin DOMAIN book.orders
           THEN RunTimeout_mut(popped, timeoutBefore)
           ELSE RunTimeout_mut([popped EXCEPT !.orders = Erase(@, account)],
                               timeoutBefore)

RECURSIVE RunTimeout(_, _)
RunTimeout(book, timeoutBefore) ==
  IF book.updates = <<>> \/ ~(Head(book.updates).time < timeoutBefore)
  THEN book
  ELSE LET account == Head(book.updates).account
           popped == [book EXCEPT !.updates = Tail(@)]
       IN  IF account \notin DOMAIN book.orders
           THEN RunTimeout(popped, timeoutBefore)
           ELSE IF book.orders[account].lastUpdate < timeoutBefore
           THEN RunTimeout([popped EXCEPT !.orders = Erase(@, account)],
                           timeoutBefore)
           ELSE RunTimeout(popped, timeoutBefore)

\* UpdateOrders for the orders upd (id -> Order) of account.
UpdateOrders(book, account, upd, time) ==
  IF account = NoStr
       \/ \E i \in DOMAIN upd : \/ upd[i].asset = NoStr
                                \/ upd[i].type = NoStr
                                \/ upd[i].price_sat = Unset
  THEN [book |-> book, fatal |-> TRUE]
  ELSE IF DOMAIN upd = {}
  THEN [book |-> [book EXCEPT !.orders = Erase(@, account)], fatal |-> FALSE]
  ELSE [book |-> [orders |-> (account :> AccountOrders(upd, time))
                               @@ book.orders,
                  updates |-> Append(book.updates, UpdateEvent(account, time))],
        fatal |-> FALSE]

\* The order of the account names (std::string operator<).
RECURSIVE BytesLess(_, _)
BytesLess(a, b) ==
  IF b = <<>> THEN FALSE
  ELSE IF a = <<>> THEN TRUE
  ELSE IF CharCode(Head(a)) # CharCode(Head(b))
  THEN CharCode(Head(a)) < CharCode(Head(b))
  ELSE BytesLess(Tail(a), Tail(b))

byPriceAsc(a, b) ==
  IF a.price_sat # b.price_sat THEN a.price_sat < b.price_sat
  ELSE IF a.account # b.account
  THEN BytesLess(Bytes(a.account), Bytes(b.account))
  ELSE a.id < b.id

\* std::sort of the elements of S with the comparison byPriceAsc.
SortBy(S) ==
  CHOOSE s \in [1..Cardinality(S) -> S] :
    /\ \A e \in S : \E i \in DOMAIN s : s[i] = e
    /\ \A i, j \in DOMAIN s : i < j => byPriceAsc(s[i], s[j])

Reverse(s) == [i \in DOMAIN s |-> s[Len(s) + 1 - i]]

\* All bids and asks that match: asks sorted over begin .. end, bids
\* sorted over rbegin .. rend.
SortByPrices(asks, bids) ==
  [asks |-> SortBy(asks),
   bids |-> Reverse(SortBy(bids))]

\* InternalGetByAsset: the view per asset; assets is the filter (all
\* assets for GetByAsset, one for GetForAsset).
InternalGetByAsset(book, assets) ==
  LET all == UNION {{[book.orders[acc].orders[id] EXCEPT !.account = acc,
                                                        !.id = id] :
                       id \in DOMAIN book.orders[acc].orders} :
                    acc \in DOMAIN book.orders}
      sel == {o \in all : o.asset \in assets}
      strip(o) == [o EXCEPT !.asset = NoStr, !.type = NoStr]
  IN  [a \in {o.asset : o \in sel} |->
         SortByPrices({strip(o) : o \in {e \in sel : e.asset = a /\ e.type = "ASK"}},
                      {strip(o) : o \in {e \in sel : e.asset = a /\ e.type = "BID"}})]

(***************************************************************************)
(* State                                                                   *)
(***************************************************************************)
VARIABLES
  own_orders,     \* State.own_orders: order id -> Order
  next_free_id,   \* State.next_free_id
  trades,         \* State.trades: the active trades
  archive,        \* State.trade_archive
  finalised,      \* the updater's list of trades still to post-process
  walletLocked,   \* the outputs locked in the wallet (lockunspent)
  mempool,        \* the transactions broadcast with sendrawtransaction
  now,            \* the clock, in seconds
  crashed,        \* a CHECK / LOG (FATAL) or an uncaught exception ended
                  \* the process
  last,           \* the outcome of the last call on the trade (SpecTrade)
  pc,             \* per thread: the position inside a MyOrders call
  loc,            \* per thread: the locals of the MyOrders call
  published,      \* the last set handed to UpdateOrders
  held,           \* history: the ids for which TryLock returned success and
                  \* Unlock has not been called since
  cancelled,      \* history: the ids of the orders that RemoveById removed
                  \* for the user while they were locked
  allOrders,      \* Daemon::Impl::allOrders: the OrderBook (orders, updates)
  knownJids,      \* Authenticator::knownJids: account -> last-seen jid
  nickToJid,      \* MucClient::nickToJid: nickname -> jid
  mut             \* OrderBook::mut: the thread that holds it, if any

vars == <<own_orders, next_free_id, trades, archive, finalised,
          walletLocked, mempool, now, crashed, last, pc, loc, published,
          held, cancelled, allOrders, knownJids, nickToJid, mut>>

\* The state of the orderbook and of the chat client.
bookVars == <<allOrders, knownJids, nickToJid, mut>>

InitBook ==
  /\ allOrders = NoBook
  /\ knownJids = <<>>
  /\ nickToJid = <<>>
  /\ mut = NoStr

NoCall == [op |-> "none", ret |-> FALSE, reply |-> NoMsg, end |-> "ok"]

Call(op, ret, reply, end) ==
  [op |-> op, ret |-> ret, reply |-> reply, end |-> end]

(***************************************************************************)
(* The answers of the wallet, the asset spec and the GSP.                  *)
(***************************************************************************)
HasReplyFaults ==
  {"name_show", "lockunspent", "getnewaddress", "seller_decode",
   "seller_sign", "seller_decode2", "buyer_check", "fund", "build",
   "buyer_sign", "buyer_decode", "unlock_decode", "combinepsbt",
   "finalizepsbt", "sendrawtransaction"}

GoodCheck == [isAsset |-> TRUE, canBuy |-> TRUE, utxoFound |-> TRUE,
              canSell |-> TRUE, dist |-> 0]

BuyerChecks ==
  {GoodCheck, [GoodCheck EXCEPT !.canSell = FALSE],
   [GoodCheck EXCEPT !.dist = MAX_BLOCK_ANCESTORS_CHECKED + 1]}

NoFault(canSign, chk) ==
  [fault |-> "none", nameOut |-> NameOut, addrN |-> "a1", addrC |-> "a2",
   canSign |-> canSign, chk |-> chk, sellerOut |-> PeerNameOut,
   coin |-> "c1"]

WalletAnswers ==
  {NoFault(cs, chk) : cs \in SUBSET ({NameOut, PeerNameOut} \cup Coins),
                      chk \in BuyerChecks}
  \cup {[NoFault({NameOut}, GoodCheck) EXCEPT !.fault = f] :
          f \in HasReplyFaults}
  \cup {[NoFault(Coins, GoodCheck) EXCEPT !.fault = f] :
          f \in HasReplyFaults}

GspAnswers ==
  {[state |-> s, height |-> 0, cur |-> c] :
     s \in {"unknown", "pending"}, c \in 0..MaxHeight}
  \cup {[state |-> "confirmed", height |-> h, cur |-> c] :
          h \in 0..MaxHeight, c \in 0..MaxHeight}

UpdateAnswers ==
  {[fault |-> "none", gsp |-> g, spent |-> sp] :
     g \in {a \in GspAnswers : a.state = "confirmed" => a.height <= a.cur},
     sp \in {{}, {NameOut}}}
  \cup {[fault |-> f, gsp |-> [state |-> "unknown", height |-> 0, cur |-> 0],
         spent |-> {}] : f \in {"update_decode", "checktrade", "gettxout"}}

(***************************************************************************)
(* What the counterparty may send for a trade.                             *)
(***************************************************************************)
PeerSellerData ==
  {[name_address |-> "b1", chi_address |-> "b2", name_output |-> NoStr],
   [name_address |-> "b1", chi_address |-> "b1", name_output |-> NoStr],
   [name_address |-> "b1", chi_address |-> NoStr, name_output |-> NoStr],
   [name_address |-> "b1", chi_address |-> "b2", name_output |-> NameOut]}

\* The transaction a buyer builds for the trade t in which we sell.
PeerTx(t, account) ==
  LET sd == t.seller_data
      tot == GetTotalSat(t.order.price_sat, t.units)
  IN  [vin |-> <<PeerCoin, NameOut>>,
       vout |-> <<[addr |-> sd.chi_address, value |-> tot.total,
                   nameOp |-> NoNameOp],
                  [addr |-> sd.name_address, value |-> NAME_VALUE,
                   nameOp |->
                     [op |-> "name_update", name |-> GetXayaName(account),
                      value |-> GetNameUpdateValue(account, t.counterparty,
                                                   t.order.asset,
                                                   t.units)]]>>,
       sigs |-> <<FALSE, FALSE>>]

PeerPsbts(t, account) ==
  IF GetOrderType(t, account) = "ASK"
  THEN LET tx == PeerTx(t, account)
       IN  {tx,
            [tx EXCEPT !.sigs = <<TRUE, FALSE>>],
            [tx EXCEPT !.vout[1].value = @ - 1, !.sigs = <<TRUE, FALSE>>],
            [tx EXCEPT !.vout[2].addr = "b9", !.sigs = <<TRUE, FALSE>>],
            [tx EXCEPT !.vin = <<PeerCoin, NameOut, "c1">>,
                       !.sigs = <<TRUE, FALSE, FALSE>>]}
  ELSE IF t.our_psbt = NoPsbt
  THEN {[vin |-> <<PeerCoin>>, vout |-> <<>>, sigs |-> <<TRUE>>]}
  ELSE {[t.our_psbt EXCEPT !.sigs = <<FALSE, TRUE>>],
        [t.our_psbt EXCEPT !.sigs = <<FALSE, FALSE>>],
        [vin |-> <<PeerCoin>>, vout |-> <<>>, sigs |-> <<TRUE>>]}

PeerMessages(t, account) ==
  LET base == InitProcessingMessage(t)
  IN  {[base EXCEPT !.has_seller_data = TRUE, !.seller_data = sd] :
         sd \in PeerSellerData}
      \cup {[base EXCEPT !.has_psbt = TRUE, !.psbt = p] :
              p \in PeerPsbts(t, account)}
      \cup {[base EXCEPT !.has_seller_data = TRUE,
                         !.seller_data = [name_address |-> "b1",
                                          chi_address |-> "b2",
                                          name_output |-> NoStr],
                         !.has_psbt = TRUE, !.psbt = p] :
              p \in PeerPsbts(t, account)}

(***************************************************************************)
(* SpecTrade: one trade under every sequence of HandleMessage, HasReply    *)
(* and Update calls.                                                       *)
(***************************************************************************)
TradeOrders ==
  {[account |-> a, id |-> 1, asset |-> Asset, type |-> ty, price_sat |-> 2,
    min_units |-> Unset, max_units |-> 2, locked |-> FALSE] :
     a \in {Me} \cup Peers, ty \in OrderTypes}

InitTrade ==
  /\ own_orders = <<>>
  /\ next_free_id = 1
  /\ trades \in {<<NewTrade(o, 2, IF o.account = Me THEN "al" ELSE o.account,
                            0)>> : o \in TradeOrders}
  /\ archive = <<>>
  /\ finalised = <<>>
  /\ walletLocked = {}
  /\ mempool = {}
  /\ now = 0
  /\ crashed = FALSE
  /\ last = NoCall
  /\ pc = <<>>
  /\ loc = <<>>
  /\ published = <<>>
  /\ held = {}
  /\ cancelled = {}
  /\ InitBook

TrHandleMessage ==
  /\ ~crashed
  /\ \E msg \in PeerMessages(trades[1], Me) :
       /\ trades' = <<HandleMessage(trades[1], Me, msg)>>
       /\ last' = Call("HandleMessage", FALSE, NoMsg, "ok")
  /\ UNCHANGED <<own_orders, next_free_id, archive, finalised, walletLocked,
                 mempool, now, crashed, pc, loc, published, held,
                 cancelled>>

TrHasReply ==
  /\ ~crashed
  /\ \E x \in WalletAnswers :
       LET r == HasReply(trades[1], Me, walletLocked, x)
       IN  /\ trades' = <<r.t>>
           /\ walletLocked' = r.wl
           /\ mempool' = mempool \cup r.bcast
           /\ crashed' = (r.end = "fatal")
           /\ last' = Call("HasReply", r.ret, r.reply, r.end)
           /\ loc' = [sent |-> r.bcast]
  /\ UNCHANGED <<own_orders, next_free_id, archive, finalised, now, pc,
                 published, held,
                 cancelled>>

TrUpdate ==
  /\ ~crashed
  /\ \E x \in UpdateAnswers :
       LET r == Update(trades[1], now, x)
       IN  /\ trades' = <<r.t>>
           /\ crashed' = (r.end = "fatal")
           /\ last' = Call("Update", FALSE, NoMsg, r.end)
           /\ loc' = IF trades[1].state = "PENDING" THEN x ELSE loc
  /\ UNCHANGED <<own_orders, next_free_id, archive, finalised, walletLocked,
                 mempool, now, pc, published, held,
                 cancelled>>

Tick ==
  /\ ~crashed
  /\ now < MaxTime
  /\ now' = now + 1
  /\ UNCHANGED <<own_orders, next_free_id, trades, archive, finalised,
                 walletLocked, mempool, crashed, last, pc, loc, published,
                 held, cancelled>>

NextTrade ==
  /\ TrHandleMessage \/ TrHasReply \/ TrUpdate \/ Tick
  /\ UNCHANGED bookVars

SpecTrade == InitTrade /\ [][NextTrade]_vars

(***************************************************************************)
(* SpecOrders: MyOrders under concurrent callers.  Every section that runs *)
(* under the lock of State is one step; a call that refreshes goes on      *)
(* with the three parts of RunRefresh (revalidate under the lock, read the *)
(* orders under the lock, hand them to UpdateOrders without the lock).     *)
(* The thread "refresher" is the IntervalJob of StartRefresher, the others *)
(* are threads that call Add, RemoveById, TryLock and Unlock.              *)
(***************************************************************************)
Callers == {"t1", "t2"}
Threads == Callers \cup {"refresher"}

NoLoc == [op |-> "none", id |-> Unset, res |-> FALSE, out |-> NoOrder,
          snap |-> <<>>]

\* The orders handed to add_order: two that are well-formed, four that
\* are not (min_units 0, min_units above max_units, max_units 0, no
\* price), and one that has account, id and locked set.
UserOrders ==
  {[NoOrder EXCEPT !.asset = Asset, !.type = "ASK", !.price_sat = 2,
                   !.max_units = 2],
   [NoOrder EXCEPT !.asset = Asset, !.type = "BID", !.price_sat = 2,
                   !.min_units = 2, !.max_units = 3],
   [NoOrder EXCEPT !.asset = Asset, !.type = "ASK", !.price_sat = 2,
                   !.min_units = 0, !.max_units = 2],
   [NoOrder EXCEPT !.asset = Asset, !.type = "BID", !.price_sat = 2,
                   !.min_units = 3, !.max_units = 2],
   [NoOrder EXCEPT !.asset = Asset, !.type = "ASK", !.price_sat = 2],
   [NoOrder EXCEPT !.asset = Asset, !.type = "BID", !.max_units = 2],
   [NoOrder EXCEPT !.asset = Asset, !.type = "ASK", !.price_sat = 2,
                   !.max_units = 2, !.account = "al", !.id = 1,
                   !.locked = TRUE]}

\* What the asset spec may answer in one refresh: every order is fine, or
\* the order of one id is not.
BadSets(ids) == {{}} \cup {{i} : i \in ids}

InitOrders ==
  /\ own_orders = <<>>
  /\ next_free_id = 1
  /\ trades = <<>>
  /\ archive = <<>>
  /\ finalised = <<>>
  /\ walletLocked = {}
  /\ mempool = {}
  /\ now = 0
  /\ crashed = FALSE
  /\ last = NoCall
  /\ pc = [th \in Threads |-> "idle"]
  /\ loc = [th \in Threads |-> NoLoc]
  /\ published = <<>>
  /\ held = {}
  /\ cancelled = {}
  /\ InitBook

OrdersUnchanged ==
  UNCHANGED <<trades, archive, finalised, walletLocked, mempool, now, last,
              cancelled>>

MoAdd(th) ==
  /\ ~crashed /\ pc[th] = "idle" /\ next_free_id <= MaxId
  /\ \E o \in UserOrders, ok \in BOOLEAN :
       LET a == Add(own_orders, next_free_id, Me, o, ok)
       IN  /\ own_orders' = a.orders
           /\ next_free_id' = a.next_free_id
           /\ pc' = [pc EXCEPT ![th] = IF a.added THEN "validate"
                                       ELSE "idle"]
           /\ loc' = [loc EXCEPT ![th] = IF a.added
                                         THEN [NoLoc EXCEPT !.op = "Add"]
                                         ELSE NoLoc]
  /\ UNCHANGED <<crashed, published, held,
                 cancelled>>
  /\ OrdersUnchanged

MoRemoveById(th) ==
  /\ ~crashed /\ pc[th] = "idle"
  /\ \E id \in 1..MaxId :
       /\ own_orders' = RemoveById(own_orders, id)
       /\ pc' = [pc EXCEPT ![th] = "validate"]
       /\ loc' = [loc EXCEPT ![th] = [NoLoc EXCEPT !.op = "RemoveById"]]
  /\ UNCHANGED <<next_free_id, crashed, published, held,
                 cancelled>>
  /\ OrdersUnchanged

MoTryLock(th, id) ==
  /\ ~crashed /\ pc[th] = "idle"
  /\ LET r == TryLock(own_orders, Me, id)
     IN  /\ own_orders' = r.orders
         /\ pc' = [pc EXCEPT ![th] = IF r.res THEN "validate" ELSE "idle"]
         /\ loc' = [loc EXCEPT ![th] = IF r.res
                                       THEN [NoLoc EXCEPT !.op = "TryLock",
                                                          !.id = id,
                                                          !.res = TRUE,
                                                          !.out = r.out]
                                       ELSE NoLoc]
  /\ UNCHANGED <<next_free_id, crashed, published, held,
                 cancelled>>
  /\ OrdersUnchanged

\* Unlock is called by the holder of a lock only (ProcessMessage after a
\* failed OrderTaken, HandleFailure for the trade of the order).
MoUnlock(th) ==
  /\ ~crashed /\ pc[th] = "idle"
  /\ \E id \in held :
       LET u == Unlock(own_orders, id)
       IN  /\ own_orders' = u.orders
           /\ crashed' = u.fatal
           /\ held' = held \ {id}
           /\ pc' = [pc EXCEPT ![th] = IF u.fatal THEN "idle"
                                       ELSE "validate"]
           /\ loc' = [loc EXCEPT ![th] = IF u.fatal THEN NoLoc
                                         ELSE [NoLoc EXCEPT !.op = "Unlock"]]
  /\ UNCHANGED <<next_free_id, published>>
  /\ OrdersUnchanged

MoStartRefresh ==
  /\ ~crashed /\ pc["refresher"] = "idle"
  /\ pc' = [pc EXCEPT !["refresher"] = "validate"]
  /\ loc' = [loc EXCEPT !["refresher"] = [NoLoc EXCEPT !.op = "Refresh"]]
  /\ UNCHANGED <<own_orders, next_free_id, crashed, published, held,
                 cancelled>>
  /\ OrdersUnchanged

MoValidate(th) ==
  /\ ~crashed /\ pc[th] = "validate"
  /\ \E bad \in BadSets(DOMAIN own_orders) :
       own_orders' = RefreshValidate(own_orders, Me, bad)
  /\ pc' = [pc EXCEPT ![th] = "read"]
  /\ UNCHANGED <<next_free_id, crashed, loc, published, held,
                 cancelled>>
  /\ OrdersUnchanged

MoRead(th) ==
  /\ ~crashed /\ pc[th] = "read"
  /\ loc' = [loc EXCEPT ![th].snap = InternalGetOrders(own_orders, FALSE)]
  /\ pc' = [pc EXCEPT ![th] = "publish"]
  /\ UNCHANGED <<own_orders, next_free_id, crashed, published, held,
                 cancelled>>
  /\ OrdersUnchanged

\* UpdateOrders; the call of the thread returns after it.
MoPublish(th) ==
  /\ ~crashed /\ pc[th] = "publish"
  /\ published' = loc[th].snap
  /\ held' = IF loc[th].op = "TryLock" THEN held \cup {loc[th].id} ELSE held
  /\ pc' = [pc EXCEPT ![th] = "idle"]
  /\ loc' = [loc EXCEPT ![th] = NoLoc]
  /\ UNCHANGED <<own_orders, next_free_id, crashed>>
  /\ OrdersUnchanged

NextOrders ==
  /\ \/ \E th \in Callers : MoAdd(th)
     \/ \E th \in Callers : MoRemoveById(th)
     \/ \E th \in Callers, id \in 1..MaxId : MoTryLock(th, id)
     \/ \E th \in Callers : MoUnlock(th)
     \/ MoStartRefresh
     \/ \E th \in Threads : MoValidate(th)
     \/ \E th \in Threads : MoRead(th)
     \/ \E th \in Threads : MoPublish(th)
  /\ UNCHANGED bookVars

SpecOrders == InitOrders /\ [][NextOrders]_vars

(***************************************************************************)
(* Spec: one process.  The calls of the user (AddOrder, CancelOrder,       *)
(* TakeOrder), the messages of the peers (ProcessMessage) and the periodic *)
(* updater, whose pass runs under the lock of State and whose              *)
(* post-finalisation of each finalised trade runs after it, without the    *)
(* lock, so that calls of the other threads come in between.  A call of    *)
(* the user or of the network is one step.                                 *)
(***************************************************************************)
OwnOutputs == {NameOut} \cup Coins

RemoteOrders ==
  {[NoOrder EXCEPT !.account = a, !.id = 1, !.asset = Asset, !.type = ty,
                   !.price_sat = 2, !.max_units = 1] :
     a \in Peers, ty \in OrderTypes}

Units == {0, 1, 2}

ManagerFaults == {"none", "getnewaddress", "build"}

\* The answers of the wallet, the GSP and the asset spec during one call
\* of the manager.
ManagerAnswers(ids) ==
  {[fault |-> f, nameOut |-> NameOut, addrN |-> "a1", addrC |-> "a2",
    canSign |-> OwnOutputs, chk |-> GoodCheck, sellerOut |-> PeerNameOut,
    coin |-> "c1", bad |-> b] : f \in ManagerFaults, b \in BadSets(ids)}

GoodSellerData ==
  [name_address |-> "b1", chi_address |-> "b2", name_output |-> NoStr]

\* The messages with which a peer takes one of our orders: a buyer sends
\* the taking_order alone, a seller sends its seller data with it.
TakingMessages(ids) ==
  LET m(p, id, n) == [NoMsg EXCEPT !.counterparty = p,
                                   !.identifier = <<Me, id>>,
                                   !.has_taking_order = TRUE,
                                   !.taking_order = [id |-> id, units |-> n]]
  IN  {m(p, id, n) : p \in Peers, id \in ids, n \in Units}
      \cup {[m(p, id, n) EXCEPT !.has_seller_data = TRUE,
                                !.seller_data = GoodSellerData] :
              p \in Peers, id \in ids, n \in Units}

\* What a peer sends next for the trade t: its seller data or the
\* transaction signed by it.
TradeMessages(t) ==
  LET base == InitProcessingMessage(t)
      tx == PeerTx(t, Me)
  IN  IF GetOrderType(t, Me) = "ASK"
      THEN IF ~t.has_seller_data \/ t.their_psbt # NoPsbt THEN {}
           ELSE {[base EXCEPT !.has_psbt = TRUE,
                              !.psbt = [tx EXCEPT !.sigs = <<TRUE, FALSE>>]]}
      ELSE IF ~t.has_seller_data
      THEN {[base EXCEPT !.has_seller_data = TRUE,
                         !.seller_data = GoodSellerData]}
      ELSE IF t.our_psbt # NoPsbt /\ t.their_psbt = NoPsbt
      THEN {[base EXCEPT !.has_psbt = TRUE,
                         !.psbt = [t.our_psbt EXCEPT !.sigs = <<FALSE, TRUE>>]]}
      ELSE {}

UpdaterAnswers ==
  {[fault |-> "none", gsp |-> [state |-> "confirmed", height |-> 0, cur |-> 1],
    spent |-> {}],
   [fault |-> "none", gsp |-> [state |-> "pending", height |-> 0, cur |-> 0],
    spent |-> {}],
   [fault |-> "none", gsp |-> [state |-> "unknown", height |-> 0, cur |-> 0],
    spent |-> {NameOut, PeerNameOut}],
   [fault |-> "none", gsp |-> [state |-> "unknown", height |-> 0, cur |-> 1],
    spent |-> {NameOut, PeerNameOut}],
   [fault |-> "checktrade",
    gsp |-> [state |-> "unknown", height |-> 0, cur |-> 0], spent |-> {}]}

PostFaults == {"none", "lockunspent", "unlock_decode"}

Init ==
  /\ own_orders = <<>>
  /\ next_free_id = 1
  /\ trades = <<>>
  /\ archive = <<>>
  /\ finalised = <<>>
  /\ walletLocked = {}
  /\ mempool = {}
  /\ now = 0
  /\ crashed = FALSE
  /\ last = NoCall
  /\ pc = <<>>
  /\ loc = <<>>
  /\ published = <<>>
  /\ held = {}
  /\ cancelled = {}
  /\ InitBook

\* Daemon::AddOrder
UserAdd ==
  /\ ~crashed /\ next_free_id <= MaxId
  /\ \E o \in UserOrders, bad \in BadSets({next_free_id}) :
       LET a == Add(own_orders, next_free_id, Me, o, next_free_id \notin bad)
           r == RunRefresh(a.orders, Me, bad)
       IN  /\ own_orders' = IF a.added THEN r.orders ELSE own_orders
           /\ published' = IF a.added THEN r.published ELSE published
           /\ next_free_id' = a.next_free_id
  /\ UNCHANGED <<trades, archive, finalised, walletLocked, mempool, now,
                 crashed, last, pc, loc, held, cancelled>>

\* Daemon::CancelOrder
UserRemove ==
  /\ ~crashed
  /\ \E id \in 1..next_free_id, bad \in BadSets({}) :
       LET r == RunRefresh(RemoveById(own_orders, id), Me, bad)
       IN  /\ own_orders' = r.orders
           /\ published' = r.published
           /\ cancelled' = IF id \in DOMAIN own_orders /\ own_orders[id].locked
                           THEN cancelled \cup {id} ELSE cancelled
  /\ UNCHANGED <<next_free_id, trades, archive, finalised, walletLocked,
                 mempool, now, crashed, last, pc, loc, held>>

ManagerCall(r) ==
  /\ own_orders' = r.orders
  /\ published' = r.published
  /\ trades' = r.trades
  /\ walletLocked' = r.wl
  /\ mempool' = mempool \cup r.bcast
  /\ crashed' = (r.end = "fatal")
  /\ UNCHANGED <<next_free_id, archive, finalised, now, last, pc, loc, held,
                 cancelled>>

\* Daemon::TakeOrder
UserTakeOrder ==
  /\ ~crashed /\ Len(trades) + Len(archive) < MaxTrades
  /\ \E o \in RemoteOrders, n \in Units, x \in ManagerAnswers({}) :
       ManagerCall(TakeOrder(own_orders, published, trades, Me, o, n, now,
                             walletLocked, x))

\* A private message of a peer arrives.
NetProcessMessage ==
  /\ ~crashed
  /\ \E msg \in (IF Len(trades) + Len(archive) < MaxTrades
                 THEN TakingMessages(1..next_free_id) ELSE {})
                \cup UNION {TradeMessages(trades[i]) : i \in DOMAIN trades},
        x \in ManagerAnswers(DOMAIN own_orders) :
       ManagerCall(ProcessMessage(own_orders, published, trades, Me, msg, now,
                                  walletLocked, x))

\* One run of the updater's locked section.
UpdaterPass ==
  /\ ~crashed /\ finalised = <<>>
  /\ \E f \in [{i \in DOMAIN trades : trades[i].state = "PENDING"}
                 -> UpdaterAnswers] :
       LET xs == [i \in DOMAIN trades |->
                    IF trades[i].state = "PENDING" THEN f[i]
                    ELSE [fault |-> "none",
                          gsp |-> [state |-> "unknown", height |-> 0,
                                   cur |-> 0],
                          spent |-> {}]]
           r == UpdateAndArchiveTrades(trades, archive, Me, now, xs)
       IN  /\ trades' = r.trades
           /\ archive' = r.archive
           /\ finalised' = r.finalised
           /\ crashed' = (r.end # "ok")
  /\ UNCHANGED <<own_orders, next_free_id, walletLocked, mempool, now, last,
                 pc, loc, published, held, cancelled>>

\* The post-finalisation of the next finalised trade.
PostFinalise(x) ==
  /\ ~crashed /\ finalised # <<>>
  /\ LET t == Head(finalised)
         r == IF t.state = "SUCCESS"
              THEN HandleSuccess(t, Me, own_orders, next_free_id, published,
                                 walletLocked, x)
              ELSE HandleFailure(t, Me, own_orders, next_free_id, published,
                                 walletLocked, x)
     IN  /\ own_orders' = r.orders
         /\ next_free_id' = r.next_free_id
         /\ published' = r.published
         /\ walletLocked' = r.wl
         /\ crashed' = (r.end # "ok")
         /\ finalised' = IF r.end = "ok" THEN Tail(finalised) ELSE finalised
  /\ UNCHANGED <<trades, archive, mempool, now, last, pc, loc, held,
                 cancelled>>

Next ==
  /\ \/ UserAdd
     \/ UserRemove
     \/ UserTakeOrder
     \/ NetProcessMessage
     \/ UpdaterPass
     \/ \E f \in PostFaults,
           bad \in BadSets(DOMAIN own_orders \cup {next_free_id}) :
          PostFinalise([fault |-> f, bad |-> bad])
     \/ Tick
  /\ UNCHANGED bookVars

Spec == Init /\ [][Next]_vars

\* OrderBook::GetForAsset: the view of one asset (empty lists if nobody
\* has an order for it).
GetForAsset(book, asset) ==
  LET allAssets == InternalGetByAsset(book, {asset})
  IN  IF DOMAIN allAssets = {} THEN [asks |-> <<>>, bids |-> <<>>]
      ELSE allAssets[asset]

\* OrderBook::GetByAsset: no filter.
GetByAsset(book) ==
  InternalGetByAsset(book,
    UNION {{book.orders[acc].orders[id].asset :
              id \in DOMAIN book.orders[acc].orders} :
           acc \in DOMAIN book.orders})

(***************************************************************************)
(* SpecBook: the orderbook of a daemon in a chat room.  The receive thread *)
(* of the chat client handles presences and room messages (MucClient,      *)
(* Daemon::Impl::HandleMessage and HandleDisconnect); the IntervalJob of   *)
(* OrderBook::StartTimeouter calls RunTimeout.  UpdateOrders and           *)
(* RunTimeout run under OrderBook::mut, so each handler is one step.       *)
(***************************************************************************)
\* The participants of the room besides this daemon's own session: a
\* peer, a second session logged in with our own account, and a jid whose
\* local part does not decode.
Jid(u, s) == [username |-> u, server |-> s]

RoomJids ==
  {Jid("al", "chat.xaya.io"), Jid("me", "chat.xaya.io"),
   Jid("x-616c", "chat.xaya.io")}

\* The nickname under which a jid is in the room; <<"self">> is our own,
\* for which the chat client keeps no nick-map entry.
NickOf(jid) == <<jid.username, jid.server>>

BookOrder(ty, price) ==
  [NoOrder EXCEPT !.asset = Asset, !.type = ty, !.price_sat = price,
                  !.max_units = 1]

\* The order sets that are broadcast.
Broadcasts ==
  {<<>>,
   <<BookOrder("BID", 2), BookOrder("BID", 2)>>,
   <<BookOrder("ASK", 2), BookOrder("ASK", 2)>>}

InitBookSpec ==
  /\ own_orders = <<>>
  /\ next_free_id = 1
  /\ trades = <<>>
  /\ archive = <<>>
  /\ finalised = <<>>
  /\ walletLocked = {}
  /\ mempool = {}
  /\ now = 0
  /\ crashed = FALSE
  /\ last = NoCall
  /\ pc = <<>>
  /\ loc = <<>>
  /\ published = <<>>
  /\ held = {}
  /\ cancelled = {}
  /\ InitBook

\* Daemon::Impl::HandleMessage for the sender jid: the account is
\* authenticated, its valid orders are handed to OrderBook::UpdateOrders.
HandleMessage_Daemon(book, jids, jid, upd, bad, time) ==
  LET a == Authenticate(jids, jid)
      valid == {i \in DOMAIN upd :
                  ValidateOrder(a.account, upd[i], i \notin bad)}
      r == UpdateOrders(book, a.account, [i \in valid |-> upd[i]], time)
  IN  IF ~a.ok THEN [book |-> book, knownJids |-> jids, fatal |-> FALSE]
      ELSE [book |-> r.book, knownJids |-> a.knownJids, fatal |-> r.fatal]

\* MucClient::handleMUCParticipantPresence: a participant other than
\* ourselves joins (the nick-map entry is set) or leaves (it is erased and
\* Daemon::Impl::HandleDisconnect removes the orders of the account).
ChatPresence ==
  /\ ~crashed
  /\ \E jid \in RoomJids :
       IF NickOf(jid) \in DOMAIN nickToJid
       THEN LET r == HandleMessage_Daemon(allOrders, knownJids, jid, <<>>,
                                          {}, now)
            IN  /\ nickToJid' = Erase(nickToJid, NickOf(jid))
                /\ allOrders' = r.book
                /\ knownJids' = r.knownJids
                /\ crashed' = r.fatal
       ELSE /\ nickToJid' = (NickOf(jid) :> jid) @@ nickToJid
            /\ UNCHANGED <<allOrders, knownJids, crashed>>
  /\ last' = NoCall
  /\ UNCHANGED <<mut, now, pc, loc>>
  /\ UNCHANGED <<own_orders, next_free_id, trades, archive, finalised,
                 walletLocked, mempool, published, held, cancelled>>

\* MucClient::handleMUCMessage: a room message from the nickname nick
\* with the broadcast upd; bad are the orders the asset spec rejects.  A
\* message from a nickname without nick-map entry (our own among them)
\* is ignored.
ChatMessage ==
  /\ ~crashed
  /\ Len(allOrders.updates) < MaxQueue
  /\ \E nick \in {NickOf(j) : j \in RoomJids} \cup {<<"self">>},
        upd \in Broadcasts, bad \in {{}, {1}} :
       /\ bad \subseteq DOMAIN upd
       /\ IF nick \in DOMAIN nickToJid
          THEN LET r == HandleMessage_Daemon(allOrders, knownJids,
                                             nickToJid[nick], upd, bad, now)
               IN  /\ allOrders' = r.book
                   /\ knownJids' = r.knownJids
                   /\ crashed' = r.fatal
          ELSE UNCHANGED <<allOrders, knownJids, crashed>>
  /\ last' = NoCall
  /\ UNCHANGED <<nickToJid, mut, now, pc, loc>>
  /\ UNCHANGED <<own_orders, next_free_id, trades, archive, finalised,
                 walletLocked, mempool, published, held, cancelled>>

\* The timeouter's tick: OrderBook::RunTimeout.  last.ret records that a
\* stamp was popped whose account keeps its entry.
TimeoutTick ==
  /\ ~crashed
  /\ LET r == RunTimeout(allOrders, now - OrderTimeout)
         n == Len(allOrders.updates) - Len(r.updates)
     IN  /\ allOrders' = r
         /\ last' = Call("RunTimeout",
                         \E i \in 1..n :
                           allOrders.updates[i].account \in DOMAIN r.orders,
                         NoMsg, "ok")
  /\ UNCHANGED <<knownJids, nickToJid, mut, now, crashed, pc, loc>>
  /\ UNCHANGED <<own_orders, next_free_id, trades, archive, finalised,
                 walletLocked, mempool, published, held, cancelled>>

\* The steady clock of the orderbook.
BookTick ==
  /\ ~crashed /\ now < MaxClock
  /\ now' = now + 1
  /\ last' = NoCall
  /\ UNCHANGED <<allOrders, knownJids, nickToJid, mut, crashed, pc, loc>>
  /\ UNCHANGED <<own_orders, next_free_id, trades, archive, finalised,
                 walletLocked, mempool, published, held, cancelled>>

NextBook == ChatPresence \/ ChatMessage \/ TimeoutTick \/ BookTick

SpecBook == InitBookSpec /\ [][NextBook]_vars

\* The IntervalJob of StartTimeouter calls RunTimeout again and again.
SpecBookFair == SpecBook /\ WF_vars(TimeoutTick)

(***************************************************************************)
(* SpecBookThreads: the accesses to the orderbook and to the authenticator *)
(* by thread.  "chat" is the receive thread of the chat client, which has  *)
(* resolved the sender of a room message and runs HandleMessage;           *)
(* "timeouter" is the IntervalJob that calls RunTimeout; "user" is a       *)
(* thread that calls Daemon::GetOrdersByAsset / GetOrdersForAsset and,     *)
(* through Daemon::TakeOrder and SendProcessingMessage, LookupJid.  A      *)
(* section under OrderBook::mut is entered in one step and left in         *)
(* another; so are the accesses that take no lock.  An access that         *)
(* overlaps with a write of another thread has undefined behaviour: the    *)
(* call may return or end the process.                                     *)
(***************************************************************************)
BookThreads == {"chat", "timeouter", "user"}

Idle == [jid |-> NoStr, account |-> NoStr, upd |-> <<>>, raced |-> FALSE]

InitBookThreads ==
  /\ own_orders = <<>>
  /\ next_free_id = 1
  /\ trades = <<>>
  /\ archive = <<>>
  /\ finalised = <<>>
  /\ walletLocked = {}
  /\ mempool = {}
  /\ now = 0
  /\ crashed = FALSE
  /\ last = NoCall
  /\ pc = [th \in BookThreads |-> "idle"]
  /\ loc = [th \in BookThreads |-> Idle]
  /\ published = <<>>
  /\ held = {}
  /\ cancelled = {}
  /\ InitBook

\* What the actions of SpecBookThreads leave unchanged.
ThreadsUnchanged ==
  UNCHANGED <<own_orders, next_free_id, trades, archive, finalised,
              walletLocked, mempool, now, last, published, held, cancelled,
              nickToJid>>

\* A room message of the participant jid arrives: HandleMessage starts
\* with Authenticator::Authenticate.
ThMessage ==
  /\ ~crashed /\ pc["chat"] = "idle"
  /\ Len(allOrders.updates) < MaxQueue
  /\ \E jid \in RoomJids, upd \in Broadcasts :
       loc' = [loc EXCEPT !["chat"] = [Idle EXCEPT !.jid = jid, !.upd = upd],
                          !["user"].raced = @ \/ pc["user"] = "lookup"]
  /\ pc' = [pc EXCEPT !["chat"] = "authenticate"]
  /\ UNCHANGED <<allOrders, knownJids, mut, crashed>>
  /\ ThreadsUnchanged

\* Authenticate writes knownJids; it takes no lock.
ThAuthenticate ==
  /\ ~crashed /\ pc["chat"] = "authenticate"
  /\ LET a == Authenticate(knownJids, loc["chat"].jid)
     IN  /\ knownJids' = a.knownJids
         /\ pc' = [pc EXCEPT !["chat"] = IF a.ok THEN "lock" ELSE "idle"]
         /\ loc' = [loc EXCEPT !["chat"] =
                      IF a.ok THEN [@ EXCEPT !.account = a.account]
                      ELSE Idle]
  /\ UNCHANGED <<allOrders, mut, crashed>>
  /\ ThreadsUnchanged

\* OrderBook::UpdateOrders takes OrderBook::mut ...
ThUpdateLock ==
  /\ ~crashed /\ pc["chat"] = "lock" /\ mut = NoStr
  /\ mut' = "chat"
  /\ pc' = [pc EXCEPT !["chat"] = "update"]
  /\ loc' = [loc EXCEPT !["user"].raced = @ \/ pc["user"] = "get"]
  /\ UNCHANGED <<allOrders, knownJids, crashed>>
  /\ ThreadsUnchanged

\* ... and writes the orders and the queue.
ThUpdate ==
  /\ ~crashed /\ pc["chat"] = "update" /\ mut = "chat"
  /\ LET r == UpdateOrders(allOrders, loc["chat"].account, loc["chat"].upd,
                           now)
     IN  /\ allOrders' = r.book
         /\ crashed' = r.fatal
  /\ mut' = NoStr
  /\ pc' = [pc EXCEPT !["chat"] = "idle"]
  /\ loc' = [loc EXCEPT !["chat"] = Idle]
  /\ UNCHANGED knownJids
  /\ ThreadsUnchanged

\* OrderBook::RunTimeout takes OrderBook::mut ...
ThTimeoutLock ==
  /\ ~crashed /\ pc["timeouter"] = "idle" /\ mut = NoStr
  /\ mut' = "timeouter"
  /\ pc' = [pc EXCEPT !["timeouter"] = "timeout"]
  /\ loc' = [loc EXCEPT !["user"].raced = @ \/ pc["user"] = "get"]
  /\ UNCHANGED <<allOrders, knownJids, crashed>>
  /\ ThreadsUnchanged

\* ... and pops the queue and erases what timed out.
ThTimeout ==
  /\ ~crashed /\ pc["timeouter"] = "timeout" /\ mut = "timeouter"
  /\ allOrders' = RunTimeout(allOrders, now - OrderTimeout)
  /\ mut' = NoStr
  /\ pc' = [pc EXCEPT !["timeouter"] = "idle"]
  /\ UNCHANGED <<knownJids, crashed, loc>>
  /\ ThreadsUnchanged

\* OrderBook::GetByAsset / GetForAsset: InternalGetByAsset reads the
\* orders without taking OrderBook::mut.
ThGetBegin ==
  /\ ~crashed /\ pc["user"] = "idle"
  /\ pc' = [pc EXCEPT !["user"] = "get"]
  /\ loc' = [loc EXCEPT !["user"].raced = (mut # NoStr)]
  /\ UNCHANGED <<allOrders, knownJids, mut, crashed>>
  /\ ThreadsUnchanged

ThGetEnd ==
  /\ ~crashed /\ pc["user"] = "get"
  /\ pc' = [pc EXCEPT !["user"] = "idle"]
  /\ loc' = [loc EXCEPT !["user"] = Idle]
  /\ crashed' \in IF loc["user"].raced THEN BOOLEAN ELSE {FALSE}
  /\ UNCHANGED <<allOrders, knownJids, mut>>
  /\ ThreadsUnchanged

\* Authenticator::LookupJid reads knownJids; it takes no lock.
ThLookupBegin ==
  /\ ~crashed /\ pc["user"] = "idle"
  /\ pc' = [pc EXCEPT !["user"] = "lookup"]
  /\ loc' = [loc EXCEPT !["user"].raced = (pc["chat"] = "authenticate")]
  /\ UNCHANGED <<allOrders, knownJids, mut, crashed>>
  /\ ThreadsUnchanged

ThLookupEnd ==
  /\ ~crashed /\ pc["user"] = "lookup"
  /\ pc' = [pc EXCEPT !["user"] = "idle"]
  /\ loc' = [loc EXCEPT !["user"] = Idle]
  /\ crashed' \in IF loc["user"].raced THEN BOOLEAN ELSE {FALSE}
  /\ UNCHANGED <<allOrders, knownJids, mut>>
  /\ ThreadsUnchanged

NextBookThreads ==
  \/ ThMessage
  \/ ThAuthenticate
  \/ ThUpdateLock
  \/ ThUpdate
  \/ ThTimeoutLock
  \/ ThTimeout
  \/ ThGetBegin
  \/ ThGetEnd
  \/ ThLookupBegin
  \/ ThLookupEnd

SpecBookThreads == InitBookThreads /\ [][NextBookThreads]_vars

(***************************************************************************)
(* SpecCalls: single calls of functions that depend on their arguments     *)
(* only.  loc holds the function called, its arguments and, once the call  *)
(* has returned, its result; crashed says that the call ended the process. *)
(***************************************************************************)
TotalCalls ==
  {[fn |-> "GetTotalSat", price |-> p, units |-> u] :
     p \in Amounts, u \in Amounts}

\* The local parts handed to DecodeName: every string of up to
\* MaxNameLen chars of NameChars ('-', '2', '3', '6', 'D', 'd', 'x'), and
\* the prefix followed by MaxNameLen chars of HexChars.
NameChars == {45, 50, 51, 54, 68, 100, 120}

HexChars == {50, 51, 54, 68, 100}

NamesOfLen(n) == [1..n -> NameChars]

NameInputs ==
  UNION {NamesOfLen(n) : n \in 0..MaxNameLen}
    \cup {ENCODED_PREFIX \o h : h \in [1..MaxNameLen -> HexChars]}

NameCalls == {[fn |-> "DecodeName", name |-> n] : n \in NameInputs}

\* The calls of CheckForSellerOutputs: "al" sells units of the asset to
\* "me"; the transaction has up to MaxOutputs outputs, each of them a
\* payment of 1, 2 or MaxAmount to the seller's chi address, a payment to
\* another address, the expected name update, the same with another
\* operation or another value, or a name update of another name that pays
\* MaxAmount to the seller's chi address.
CheckSd == [name_address |-> "a1", chi_address |-> "a2",
            name_output |-> NoStr]

CheckOutputs(units) ==
  {[addr |-> "a2", value |-> v, nameOp |-> NoNameOp] :
     v \in {1, 2, MaxAmount}}
  \cup {[addr |-> "zz", value |-> MaxAmount, nameOp |-> NoNameOp],
        [addr |-> "a1", value |-> NAME_VALUE,
         nameOp |-> [op |-> "name_update", name |-> GetXayaName("al"),
                     value |-> GetNameUpdateValue("al", Me, Asset, units)]],
        [addr |-> "a1", value |-> NAME_VALUE,
         nameOp |-> [op |-> "name_register", name |-> GetXayaName("al"),
                     value |-> GetNameUpdateValue("al", Me, Asset, units)]],
        [addr |-> "a1", value |-> NAME_VALUE,
         nameOp |-> [op |-> "name_update", name |-> GetXayaName("al"),
                     value |-> GetNameUpdateValue("al", Me, Asset,
                                                  units + 1)]],
        [addr |-> "a2", value |-> MaxAmount,
         nameOp |-> [op |-> "name_update", name |-> GetXayaName("bo"),
                     value |-> GetNameUpdateValue("al", Me, Asset, units)]]}

OutputCalls ==
  UNION {{[fn |-> "CheckForSellerOutputs", price |-> p, units |-> u,
           vout |-> v] :
            p \in {0, 2, MaxAmount},
            v \in UNION {[1..n -> CheckOutputs(u)] : n \in 0..MaxOutputs}} :
         u \in 1..3}

\* The calls of the two signature checks: a transaction with up to
\* MaxInputs distinct inputs (the seller's name outpoint NameOut and
\* coins), the signatures present before the wallet signs, and those after
\* it: the wallet adds signatures to some of the inputs.
SigOutpoints == {NameOut, "c1", "c2"}

SigInputs ==
  {v \in UNION {[1..n -> SigOutpoints] : n \in 1..MaxInputs} :
     \A i, j \in DOMAIN v : v[i] = v[j] => i = j}

SigPsbt(v, sg) == [vin |-> v, vout |-> <<>>, sigs |-> sg]

Signings(v) ==
  {ba \in [DOMAIN v -> BOOLEAN] \X [DOMAIN v -> BOOLEAN] :
     \A i \in DOMAIN v : ba[1][i] => ba[2][i]}

SigCalls ==
  UNION {{[fn |-> f, before |-> SigPsbt(v, ba[1]),
           after |-> SigPsbt(v, ba[2])] :
            f \in {"CheckForBuyerSignature", "CheckForSellerSignature"},
            ba \in Signings(v)} :
         v \in SigInputs}

\* The calls of CheckForBuyerTrade: the blocks 0..ChainLen form a chain
\* from the genesis block 0, the block ChainLen + 1 is a fork on top of
\* block 2.  gettxout saw the seller's name output (created in the block
\* "created") unspent at the tip utxoBlock, the GSP answers for gspBlock.
Blocks == 0..(ChainLen + 1)

ChainPrev ==
  [b \in Blocks |-> IF b = 0 THEN Unset
                    ELSE IF b = ChainLen + 1 THEN 2 ELSE b - 1]

BuyerCalls ==
  {c \in [fn : {"CheckForBuyerTrade"}, isAsset : BOOLEAN, canBuy : BOOLEAN,
          utxoFound : BOOLEAN, canSell : BOOLEAN, utxoBlock : Blocks,
          gspBlock : Blocks, created : Blocks] :
     IsBlockAncestor(ChainPrev, c.created, c.utxoBlock, ChainLen)}

\* The calls of Trade::HandleMessage: a trade in any state, with or
\* without seller data and the counterparty's PSBT, and a message with or
\* without seller data and a PSBT.
MergeSellerData_in ==
  {[name_address |-> "b1", chi_address |-> "b2", name_output |-> NoStr],
   [name_address |-> "b3", chi_address |-> "b4", name_output |-> NoStr],
   [name_address |-> "b1", chi_address |-> "b1", name_output |-> NoStr],
   [name_address |-> "b1", chi_address |-> NoStr, name_output |-> NoStr],
   [name_address |-> NoStr, chi_address |-> "b2", name_output |-> NoStr],
   [name_address |-> "b3", chi_address |-> "b4", name_output |-> NameOut]}

MergePsbt_in ==
  {[vin |-> <<"c1">>, vout |-> <<>>, sigs |-> <<FALSE>>],
   [vin |-> <<"c1">>, vout |-> <<>>, sigs |-> <<TRUE>>]}

MergeTrades ==
  {[NewTrade(o, 2, IF o.account = Me THEN "al" ELSE o.account, 0)
      EXCEPT !.state = st,
             !.has_seller_data = hs,
             !.seller_data =
               IF ~hs THEN NoSellerData
               ELSE IF o.type = (IF o.account = Me THEN "ASK" ELSE "BID")
               THEN [name_address |-> "a1", chi_address |-> "a2",
                     name_output |-> NameOut]
               ELSE [name_address |-> "b1", chi_address |-> "b2",
                     name_output |-> NoStr],
             !.their_psbt = tp] :
     o \in TradeOrders,
     st \in {"INITIATED", "PENDING", "SUCCESS", "FAILED", "ABANDONED"},
     hs \in BOOLEAN,
     tp \in {NoPsbt, [vin |-> <<"c1">>, vout |-> <<>>, sigs |-> <<FALSE>>]}}

MergeMessages(t) ==
  LET base == InitProcessingMessage(t)
      sds  == {base} \cup {[base EXCEPT !.has_seller_data = TRUE,
                                        !.seller_data = sd] :
                             sd \in MergeSellerData_in}
  IN  sds \cup {[m EXCEPT !.has_psbt = TRUE, !.psbt = p] :
                  m \in sds, p \in MergePsbt_in}

MergeCalls ==
  {c \in [fn : {"HandleMessage"}, t : MergeTrades,
          msg : UNION {MergeMessages(t) : t \in MergeTrades}] :
     c.msg \in MergeMessages(c.t)}

\* The calls of TradeManager::ProcessMessage: up to two active trades with
\* the accounts in Senders, the own order 1 locked for a trade made from
\* it, the own order 2 free or absent, and a message of one of the senders
\* (HandlePrivate has set its counterparty) for one of four identifiers.
Senders == {"al", "ev"}

RouteOrder(a, ty) ==
  [NoOrder EXCEPT !.account = a, !.id = 1, !.asset = Asset, !.type = ty,
                  !.price_sat = 2, !.max_units = 2]

RouteTrades ==
  {NewTrade(RouteOrder(p[1], ty), 1, p[2], 0) :
     p \in {q \in ({Me} \cup Senders) \X Senders :
              q[1] = Me \/ q[1] = q[2]},
     ty \in OrderTypes}

RouteLists ==
  {<<>>} \cup {<<t>> : t \in RouteTrades}
         \cup {<<t, u>> : t \in RouteTrades, u \in RouteTrades}

RouteOwnOrders(trs, free) ==
  LET ids == {i \in {1} : \E k \in DOMAIN trs : trs[k].order.account = Me}
               \cup {i \in {2} : free}
  IN  [i \in ids |-> [NoOrder EXCEPT !.asset = Asset, !.type = "ASK",
                                     !.price_sat = 2, !.max_units = 2,
                                     !.locked = (i = 1)]]

RouteMessages ==
  LET base == {[NoMsg EXCEPT !.counterparty = c, !.identifier = <<a, id>>] :
                 c \in Senders, a \in {Me} \cup Senders, id \in {1, 2}}
  IN  {m \in base : m.identifier[2] = 1 \/ m.identifier[1] = Me}
        \cup {[m EXCEPT !.has_seller_data = TRUE,
                        !.seller_data = GoodSellerData] : m \in base}
        \cup {[m EXCEPT !.has_taking_order = TRUE,
                        !.taking_order = [id |-> 2, units |-> 1]] :
                m \in base}

RouteCalls ==
  {[fn |-> "ProcessMessage", trs |-> trs,
    orders |-> RouteOwnOrders(trs, free), msg |-> msg, x |-> x] :
     trs \in RouteLists, free \in BOOLEAN, msg \in RouteMessages,
     x \in ManagerAnswers({})}

\* The calls of Daemon::Impl::HandleMessage: a broadcast of up to two
\* orders (valid ones, one that names another account, ones the validator
\* rejects, one without the type field) from a sender whose jid
\* authenticates or does not, into an orderbook that is empty or holds
\* orders of al and bo.
SenderJids == RoomJids \cup {Jid("al", "chat.other.org")}

BroadcastOrders ==
  {BookOrder("BID", 2), BookOrder("ASK", 3),
   [BookOrder("BID", 1) EXCEPT !.account = "bo", !.id = 7],
   [BookOrder("BID", 2) EXCEPT !.max_units = 0],
   [BookOrder("ASK", 2) EXCEPT !.price_sat = Unset],
   [BookOrder("BID", 2) EXCEPT !.min_units = 2],
   [BookOrder("BID", 2) EXCEPT !.type = NoStr]}

BroadcastsIn ==
  {<<>>} \cup {<<o>> : o \in BroadcastOrders}
         \cup {<<o, p>> : o \in BroadcastOrders, p \in BroadcastOrders}

BooksIn ==
  {NoBook,
   [orders |-> ("al" :> AccountOrders(<<BookOrder("ASK", 1)>>, 0))
                 @@ ("bo" :> AccountOrders(<<BookOrder("BID", 1)>>, 0)),
    updates |-> <<UpdateEvent("al", 0), UpdateEvent("bo", 0)>>]}

BroadcastCalls ==
  {c \in [fn : {"HandleMessage_Daemon"}, book : BooksIn, jid : SenderJids,
          upd : BroadcastsIn, bad : SUBSET {1, 2}] :
     c.bad \subseteq DOMAIN c.upd}

PureCalls ==
  TotalCalls \cup NameCalls \cup OutputCalls \cup SigCalls \cup BuyerCalls
    \cup MergeCalls \cup RouteCalls \cup BroadcastCalls

InitCalls ==
  /\ own_orders = <<>>
  /\ next_free_id = 1
  /\ trades = <<>>
  /\ archive = <<>>
  /\ finalised = <<>>
  /\ walletLocked = {}
  /\ mempool = {}
  /\ now = 0
  /\ crashed = FALSE
  /\ last = NoCall
  /\ pc = "call"
  /\ loc \in PureCalls
  /\ published = <<>>
  /\ held = {}
  /\ cancelled = {}
  /\ InitBook

\* What a call leaves unchanged.
CallsUnchanged ==
  UNCHANGED <<own_orders, next_free_id, trades, archive, finalised,
              walletLocked, mempool, now, last, published, held, cancelled,
              bookVars>>

\* TradeChecker::GetTotalSat for loc.price and loc.units.
CallGetTotalSat ==
  /\ pc = "call" /\ loc.fn = "GetTotalSat"
  /\ \E r \in GetTotalSatBuilds(loc.price, loc.units) :
       /\ loc' = [fn |-> loc.fn, price |-> loc.price, units |-> loc.units,
                  ok |-> r.ok, total |-> r.total]
       /\ crashed' = r.fatal
  /\ pc' = "returned"
  /\ CallsUnchanged

\* DecodeName for loc.name.
CallDecodeName ==
  /\ pc = "call" /\ loc.fn = "DecodeName"
  /\ LET r == DecodeName(loc.name)
     IN  loc' = [fn |-> loc.fn, name |-> loc.name, ok |-> r.ok,
                 decoded |-> r.decoded]
  /\ pc' = "returned"
  /\ UNCHANGED crashed
  /\ CallsUnchanged

\* TradeChecker::CheckForSellerOutputs for the outputs loc.vout.
CallCheckForSellerOutputs ==
  /\ pc = "call" /\ loc.fn = "CheckForSellerOutputs"
  /\ \E r \in CheckForSellerOutputsBuilds([NoPsbt EXCEPT !.vout = loc.vout],
                                          CheckSd, "al", Me, Asset,
                                          loc.price, loc.units) :
       /\ loc' = [fn |-> loc.fn, price |-> loc.price, units |-> loc.units,
                  vout |-> loc.vout, ok |-> r.ok]
       /\ crashed' = r.fatal
  /\ pc' = "returned"
  /\ CallsUnchanged

\* TradeChecker::CheckForBuyerSignature for loc.before and loc.after.
CallCheckForBuyerSignature ==
  /\ pc = "call" /\ loc.fn = "CheckForBuyerSignature"
  /\ loc' = [fn |-> loc.fn, before |-> loc.before, after |-> loc.after,
             ok |-> CheckForBuyerSignature(loc.before, loc.after)]
  /\ pc' = "returned"
  /\ UNCHANGED crashed
  /\ CallsUnchanged

\* TradeChecker::CheckForSellerSignature for loc.before and loc.after; the
\* seller data names NameOut as the name outpoint.
CallCheckForSellerSignature ==
  /\ pc = "call" /\ loc.fn = "CheckForSellerSignature"
  /\ loc' = [fn |-> loc.fn, before |-> loc.before, after |-> loc.after,
             ok |-> CheckForSellerSignature(
                      loc.before, loc.after,
                      [CheckSd EXCEPT !.name_output = NameOut])]
  /\ pc' = "returned"
  /\ UNCHANGED crashed
  /\ CallsUnchanged

\* TradeChecker::CheckForBuyerTrade with the answers in loc.
CallCheckForBuyerTrade ==
  /\ pc = "call" /\ loc.fn = "CheckForBuyerTrade"
  /\ LET c == [isAsset |-> loc.isAsset, canBuy |-> loc.canBuy,
               utxoFound |-> loc.utxoFound, canSell |-> loc.canSell,
               dist |-> AncestorSteps(ChainPrev, loc.utxoBlock,
                                      loc.gspBlock,
                                      MAX_BLOCK_ANCESTORS_CHECKED)]
     IN  loc' = [loc EXCEPT !.fn = "CheckForBuyerTrade"]
                  @@ [ok |-> CheckForBuyerTrade(c)]
  /\ pc' = "returned"
  /\ UNCHANGED crashed
  /\ CallsUnchanged

\* Trade::HandleMessage for the trade loc.t and the message loc.msg.
CallHandleMessage ==
  /\ pc = "call" /\ loc.fn = "HandleMessage"
  /\ loc' = [fn |-> loc.fn, t |-> loc.t, msg |-> loc.msg,
             after |-> HandleMessage(loc.t, Me, loc.msg)]
  /\ pc' = "returned"
  /\ UNCHANGED crashed
  /\ CallsUnchanged

\* TradeManager::ProcessMessage for the trades loc.trs and the message
\* loc.msg.
CallProcessMessage ==
  /\ pc = "call" /\ loc.fn = "ProcessMessage"
  /\ loc' = loc @@ [r |-> ProcessMessage(loc.orders, {}, loc.trs, Me,
                                         loc.msg, 0, {}, loc.x)]
  /\ pc' = "returned"
  /\ UNCHANGED crashed
  /\ CallsUnchanged

\* Daemon::Impl::HandleMessage for the broadcast loc.upd of loc.jid.
CallHandleBroadcast ==
  /\ pc = "call" /\ loc.fn = "HandleMessage_Daemon"
  /\ loc' = loc @@ [r |-> HandleMessage_Daemon(loc.book, <<>>, loc.jid,
                                               loc.upd, loc.bad, 1)]
  /\ pc' = "returned"
  /\ UNCHANGED crashed
  /\ CallsUnchanged

NextCalls ==
  \/ CallGetTotalSat
  \/ CallDecodeName
  \/ CallCheckForSellerOutputs
  \/ CallCheckForBuyerSignature
  \/ CallCheckForSellerSignature
  \/ CallCheckForBuyerTrade
  \/ CallHandleMessage
  \/ CallProcessMessage
  \/ CallHandleBroadcast

SpecCalls == InitCalls /\ [][NextCalls]_vars

(***************************************************************************)
(* SpecJob: an IntervalJob.  "worker" is the thread of StartWorker, "main" *)
(* the thread that owns the job and destroys it.  mut is the holder of     *)
(* IntervalJob::mut.  loc holds the stop flag, the number of runs of the   *)
(* job (counted up to MaxRuns), the step inside the job function (it has   *)
(* JobSteps steps and terminates), the time at which the current wait_for  *)
(* times out and how the last wait_for ended.                              *)
(***************************************************************************)
InitJob ==
  /\ own_orders = <<>>
  /\ next_free_id = 1
  /\ trades = <<>>
  /\ archive = <<>>
  /\ finalised = <<>>
  /\ walletLocked = {}
  /\ mempool = {}
  /\ now = 0
  /\ crashed = FALSE
  /\ last = NoCall
  /\ pc = [main |-> "alive", worker |-> "start"]
  /\ loc = [stop |-> FALSE, runs |-> 0, step |-> 0, until |-> 0,
            wake |-> "none"]
  /\ published = <<>>
  /\ held = {}
  /\ cancelled = {}
  /\ allOrders = NoBook
  /\ knownJids = <<>>
  /\ nickToJid = <<>>
  /\ mut = NoStr

\* What the actions of SpecJob leave unchanged.
JobUnchanged ==
  UNCHANGED <<own_orders, next_free_id, trades, archive, finalised,
              walletLocked, mempool, crashed, last, published, held,
              cancelled, allOrders, knownJids, nickToJid>>

\* The worker thread: std::unique_lock<std::mutex> lock(mut).
WorkerLock ==
  /\ pc["worker"] = "start" /\ mut = NoStr
  /\ mut' = "worker"
  /\ pc' = [pc EXCEPT !["worker"] = "check"]
  /\ UNCHANGED loc
  /\ UNCHANGED now
  /\ JobUnchanged

\* while (!stop): the job is entered, or the thread function returns.
WorkerCheck ==
  /\ pc["worker"] = "check" /\ mut = "worker"
  /\ IF loc.stop
     THEN /\ pc' = [pc EXCEPT !["worker"] = "exited"]
          /\ mut' = NoStr
          /\ UNCHANGED loc
     ELSE /\ pc' = [pc EXCEPT !["worker"] = "job"]
          /\ loc' = [loc EXCEPT !.step = 0,
                                 !.runs = IF @ < MaxRuns THEN @ + 1 ELSE @]
          /\ UNCHANGED mut
  /\ UNCHANGED now
  /\ JobUnchanged

\* job (): one step of the job function, run with mut held; after the
\* last step cv.wait_for (lock, intv) releases mut and waits.
WorkerJob ==
  /\ pc["worker"] = "job" /\ mut = "worker"
  /\ IF loc.step + 1 < JobSteps
     THEN /\ loc' = [loc EXCEPT !.step = @ + 1]
          /\ UNCHANGED <<pc, mut>>
     ELSE /\ loc' = [loc EXCEPT !.step = 0, !.wake = "none",
                                 !.until = now + JobInterval]
          /\ pc' = [pc EXCEPT !["worker"] = "waiting"]
          /\ mut' = NoStr
  /\ UNCHANGED now
  /\ JobUnchanged

\* wait_for ends without a notification: the interval has passed.
WorkerTimeout ==
  /\ pc["worker"] = "waiting" /\ now >= loc.until
  /\ pc' = [pc EXCEPT !["worker"] = "woken"]
  /\ loc' = [loc EXCEPT !.wake = "timeout"]
  /\ UNCHANGED mut
  /\ UNCHANGED now
  /\ JobUnchanged

\* wait_for ends by a spurious wakeup.
WorkerSpurious ==
  /\ pc["worker"] = "waiting"
  /\ pc' = [pc EXCEPT !["worker"] = "woken"]
  /\ loc' = [loc EXCEPT !.wake = "spurious"]
  /\ UNCHANGED mut
  /\ UNCHANGED now
  /\ JobUnchanged

\* Time passes.
JobTick ==
  /\ now < MaxClock
  /\ now' = now + 1
  /\ UNCHANGED <<pc, loc, mut>>
  /\ JobUnchanged

\* wait_for takes mut again before it returns.
WorkerRelock ==
  /\ pc["worker"] = "woken" /\ mut = NoStr
  /\ mut' = "worker"
  /\ pc' = [pc EXCEPT !["worker"] = "check"]
  /\ UNCHANGED loc
  /\ UNCHANGED now
  /\ JobUnchanged

\* ~IntervalJob: std::lock_guard<std::mutex> lock(mut).
DtorLock ==
  /\ pc["main"] = "alive" /\ mut = NoStr
  /\ mut' = "main"
  /\ pc' = [pc EXCEPT !["main"] = "locked"]
  /\ UNCHANGED loc
  /\ UNCHANGED now
  /\ JobUnchanged

\* The destructor without cv.notify_all ().
DtorStop_mut ==
  /\ pc["main"] = "locked" /\ mut = "main"
  /\ loc' = [loc EXCEPT !.stop = TRUE]
  /\ pc' = [pc EXCEPT !["main"] = "join"]
  /\ mut' = NoStr
  /\ UNCHANGED now
  /\ JobUnchanged

\* stop = true; cv.notify_all (); the lock_guard releases mut.
DtorStop ==
  /\ pc["main"] = "locked" /\ mut = "main"
  /\ loc' = [loc EXCEPT !.stop = TRUE,
                         !.wake = IF pc["worker"] = "waiting" THEN "notify"
                                  ELSE @]
  /\ pc' = [pc EXCEPT !["main"] = "join",
                      !["worker"] = IF @ = "waiting" THEN "woken" ELSE @]
  /\ mut' = NoStr
  /\ UNCHANGED now
  /\ JobUnchanged

\* worker.join () returns when the thread function has returned.
DtorJoin ==
  /\ pc["main"] = "join" /\ pc["worker"] = "exited"
  /\ pc' = [pc EXCEPT !["main"] = "returned"]
  /\ UNCHANGED <<loc, mut>>
  /\ UNCHANGED now
  /\ JobUnchanged

NextJob ==
  \/ WorkerLock
  \/ WorkerCheck
  \/ WorkerJob
  \/ WorkerTimeout
  \/ WorkerSpurious
  \/ WorkerRelock
  \/ JobTick
  \/ DtorLock
  \/ DtorStop
  \/ DtorJoin

SpecJob == InitJob /\ [][NextJob]_vars

\* Every thread that can run does run and time passes; the destructor
\* gets the mutex, which is free for an interval after every run of the
\* job.
SpecJobFair ==
  /\ SpecJob
  /\ WF_vars(WorkerLock) /\ WF_vars(WorkerCheck) /\ WF_vars(WorkerJob)
  /\ WF_vars(WorkerTimeout) /\ WF_vars(WorkerRelock) /\ WF_vars(JobTick)
  /\ SF_vars(DtorLock) /\ WF_vars(DtorStop) /\ WF_vars(DtorJoin)

(***************************************************************************)
(* SpecMuc: the disconnect of the chat client.  "user" is a thread that    *)
(* calls MucClient::Disconnect, "recv" the receive thread of the           *)
(* XmppClient, on which the handlers run and which calls DisconnectAsync   *)
(* when an error or the own unavailable presence arrives; "w_user" and     *)
(* "w_recv" are the disconnecter threads these two spawn.  mut is the      *)
(* holder of MucClient::mut.  loc holds the room handle (TRUE: not null),  *)
(* the connection of the XmppClient, the flag disconnecting, the thread    *)
(* held by the member disconnecter (NoStr: not joinable) and whether the   *)
(* room has been left.  XmppClient::Disconnect stops the receive thread    *)
(* and joins it, so it returns only when no handler is running.            *)
(***************************************************************************)
MucCallers == {"user", "recv"}

WorkerOf(th) == IF th = "user" THEN "w_user" ELSE "w_recv"

InitMuc ==
  /\ own_orders = <<>>
  /\ next_free_id = 1
  /\ trades = <<>>
  /\ archive = <<>>
  /\ finalised = <<>>
  /\ walletLocked = {}
  /\ mempool = {}
  /\ now = 0
  /\ crashed = FALSE
  /\ last = NoCall
  /\ pc = [user |-> "idle", recv |-> "idle", w_user |-> "none",
           w_recv |-> "none"]
  /\ loc = [room |-> TRUE, connected |-> TRUE, disconnecting |-> FALSE,
            disconnecter |-> NoStr, left |-> FALSE]
  /\ published = <<>>
  /\ held = {}
  /\ cancelled = {}
  /\ allOrders = NoBook
  /\ knownJids = <<>>
  /\ nickToJid = (<<"al", "chat.xaya.io">> :> [username |-> "al",
                                               server |-> "chat.xaya.io"])
  /\ mut = NoStr

\* What the actions of SpecMuc leave unchanged.
MucUnchanged ==
  UNCHANGED <<own_orders, next_free_id, trades, archive, finalised,
              walletLocked, mempool, now, last, published, held, cancelled,
              allOrders, knownJids>>

\* The user calls Disconnect, which starts with DisconnectAsync.
UserDisconnect ==
  /\ ~crashed /\ pc["user"] \in {"idle", "returned"}
  /\ pc' = [pc EXCEPT !["user"] = "async"]
  /\ UNCHANGED <<loc, mut, nickToJid, crashed>>
  /\ MucUnchanged

\* handleMUCError, or handleMUCParticipantPresence for the own
\* unavailable presence, runs on the receive thread and calls
\* DisconnectAsync.
RecvError ==
  /\ ~crashed /\ pc["recv"] = "idle" /\ loc.connected
  /\ pc' = [pc EXCEPT !["recv"] = "async"]
  /\ UNCHANGED <<loc, mut, nickToJid, crashed>>
  /\ MucUnchanged

\* DisconnectAsync: if (disconnecting) return.
AsyncCheck(th) ==
  /\ ~crashed /\ pc[th] = "async"
  /\ pc' = [pc EXCEPT ![th] = IF loc.disconnecting THEN "after"
                                ELSE "async_join"]
  /\ UNCHANGED <<loc, mut, nickToJid, crashed>>
  /\ MucUnchanged

\* DisconnectAsync: if (disconnecter.joinable ()) disconnecter.join ().
AsyncJoin(th) ==
  /\ ~crashed /\ pc[th] = "async_join"
  /\ loc.disconnecter # NoStr => pc[loc.disconnecter] = "finished"
  /\ loc' = [loc EXCEPT !.disconnecter = NoStr]
  /\ pc' = [pc EXCEPT ![th] = "async_lock"]
  /\ UNCHANGED <<mut, nickToJid, crashed>>
  /\ MucUnchanged

\* DisconnectAsync: the lock of mut, nickToJid.clear (), disconnecting =
\* true and the start of the worker thread.
AsyncSpawn(th) ==
  /\ ~crashed /\ pc[th] = "async_lock" /\ mut = NoStr
  /\ mut' = th
  /\ nickToJid' = <<>>
  /\ loc' = [loc EXCEPT !.disconnecting = TRUE]
  /\ pc' = [pc EXCEPT ![th] = "async_move", ![WorkerOf(th)] = "leave"]
  /\ UNCHANGED crashed
  /\ MucUnchanged

\* DisconnectAsync: disconnecter = std::move (worker), which terminates
\* the process if disconnecter is joinable; mut is released.
AsyncMove(th) ==
  /\ ~crashed /\ pc[th] = "async_move" /\ mut = th
  /\ crashed' = (loc.disconnecter # NoStr)
  /\ loc' = [loc EXCEPT !.disconnecter = WorkerOf(th)]
  /\ mut' = NoStr
  /\ pc' = [pc EXCEPT ![th] = "after"]
  /\ UNCHANGED nickToJid
  /\ MucUnchanged

\* The worker: if (room != nullptr) room->leave ().
WorkerLeave(w) ==
  /\ ~crashed /\ pc[w] = "leave"
  /\ loc' = [loc EXCEPT !.left = @ \/ loc.room]
  /\ pc' = [pc EXCEPT ![w] = "disconnect"]
  /\ UNCHANGED <<mut, nickToJid, crashed>>
  /\ MucUnchanged

\* The worker: XmppClient::Disconnect (), which returns when the receive
\* thread has left its handler and has stopped.
WorkerDisconnect(w) ==
  /\ ~crashed /\ pc[w] = "disconnect"
  /\ pc["recv"] \in {"idle", "stopped"}
  /\ loc' = [loc EXCEPT !.connected = FALSE]
  /\ pc' = [pc EXCEPT ![w] = "reset", !["recv"] = "stopped"]
  /\ UNCHANGED <<mut, nickToJid, crashed>>
  /\ MucUnchanged

\* The worker: room.reset ().
WorkerReset(w) ==
  /\ ~crashed /\ pc[w] = "reset"
  /\ loc' = [loc EXCEPT !.room = FALSE]
  /\ pc' = [pc EXCEPT ![w] = "clear"]
  /\ UNCHANGED <<mut, nickToJid, crashed>>
  /\ MucUnchanged

\* The worker: disconnecting = false, and the thread function returns.
WorkerDone(w) ==
  /\ ~crashed /\ pc[w] = "clear"
  /\ loc' = [loc EXCEPT !.disconnecting = FALSE]
  /\ pc' = [pc EXCEPT ![w] = "finished"]
  /\ UNCHANGED <<mut, nickToJid, crashed>>
  /\ MucUnchanged

\* The handler on the receive thread after DisconnectAsync: it locks mut
\* for the joining flag and returns.
RecvReturn ==
  /\ ~crashed /\ pc["recv"] = "after" /\ mut = NoStr
  /\ pc' = [pc EXCEPT !["recv"] = "idle"]
  /\ UNCHANGED <<loc, mut, nickToJid, crashed>>
  /\ MucUnchanged

\* Disconnect after DisconnectAsync: if (disconnecter.joinable ())
\* disconnecter.join ().
UserJoin ==
  /\ ~crashed /\ pc["user"] = "after"
  /\ loc.disconnecter # NoStr => pc[loc.disconnecter] = "finished"
  /\ loc' = [loc EXCEPT !.disconnecter = NoStr]
  /\ pc' = [pc EXCEPT !["user"] = "checks"]
  /\ UNCHANGED <<mut, nickToJid, crashed>>
  /\ MucUnchanged

\* Disconnect: under mut, CHECK (!disconnecting), CHECK (room == nullptr)
\* and CHECK (!XmppClient::IsConnected ()).
UserChecks ==
  /\ ~crashed /\ pc["user"] = "checks" /\ mut = NoStr
  /\ crashed' = (loc.disconnecting \/ loc.room \/ loc.connected)
  /\ pc' = [pc EXCEPT !["user"] = "returned"]
  /\ UNCHANGED <<loc, mut, nickToJid>>
  /\ MucUnchanged

NextMuc ==
  \/ UserDisconnect
  \/ RecvError
  \/ \E th \in MucCallers : AsyncCheck(th)
  \/ \E th \in MucCallers : AsyncJoin(th)
  \/ \E th \in MucCallers : AsyncSpawn(th)
  \/ \E th \in MucCallers : AsyncMove(th)
  \/ \E th \in MucCallers : WorkerLeave(WorkerOf(th))
  \/ \E th \in MucCallers : WorkerDisconnect(WorkerOf(th))
  \/ \E th \in MucCallers : WorkerReset(WorkerOf(th))
  \/ \E th \in MucCallers : WorkerDone(WorkerOf(th))
  \/ RecvReturn
  \/ UserJoin
  \/ UserChecks

SpecMuc == InitMuc /\ [][NextMuc]_vars

(***************************************************************************)
(* SpecRefresh: the chat client of SpecMuc together with "refresh", a      *)
(* thread that runs MyOrders::RunRefresh (the refresher's IntervalJob or   *)
(* a caller of Add, RemoveById, TryLock or Unlock) and with it             *)
(* Daemon::MyOrdersImpl::UpdateOrders.  loc.runs counts the refreshes      *)
(* and loc.sent the broadcasts handed to the client.                       *)
(***************************************************************************)
\* MucClient::IsConnected
IsConnected(l) == ~l.disconnecting /\ l.connected

InitRefresh ==
  /\ own_orders = <<>>
  /\ next_free_id = 1
  /\ trades = <<>>
  /\ archive = <<>>
  /\ finalised = <<>>
  /\ walletLocked = {}
  /\ mempool = {}
  /\ now = 0
  /\ crashed = FALSE
  /\ last = NoCall
  /\ pc = [user |-> "idle", recv |-> "idle", w_user |-> "none",
           w_recv |-> "none", refresh |-> "idle"]
  /\ loc = [room |-> TRUE, connected |-> TRUE, disconnecting |-> FALSE,
            disconnecter |-> NoStr, left |-> FALSE, runs |-> 0, sent |-> 0]
  /\ published = <<>>
  /\ held = {}
  /\ cancelled = {}
  /\ allOrders = NoBook
  /\ knownJids = <<>>
  /\ nickToJid = (<<"al", "chat.xaya.io">> :> [username |-> "al",
                                               server |-> "chat.xaya.io"])
  /\ mut = NoStr

\* RunRefresh calls UpdateOrders, which compares the account under the
\* State lock.
RefreshStart ==
  /\ ~crashed /\ pc["refresh"] = "idle" /\ loc.runs < MaxRuns
  /\ loc' = [loc EXCEPT !.runs = @ + 1]
  /\ pc' = [pc EXCEPT !["refresh"] = "test"]
  /\ UNCHANGED <<mut, nickToJid, crashed>>
  /\ MucUnchanged

\* UpdateOrders: if (!impl.IsConnected ()) return.
RefreshTest ==
  /\ ~crashed /\ pc["refresh"] = "test"
  /\ pc' = [pc EXCEPT !["refresh"] = IF IsConnected(loc) THEN "publish"
                                     ELSE "idle"]
  /\ UNCHANGED <<loc, mut, nickToJid, crashed>>
  /\ MucUnchanged

\* MucClient::PublishMessage: CHECK (IsConnected ()), then the message is
\* sent.
RefreshPublish ==
  /\ ~crashed /\ pc["refresh"] = "publish"
  /\ crashed' = ~IsConnected(loc)
  /\ loc' = [loc EXCEPT !.sent = IF IsConnected(loc) THEN @ + 1 ELSE @]
  /\ pc' = [pc EXCEPT !["refresh"] = "idle"]
  /\ UNCHANGED <<mut, nickToJid>>
  /\ MucUnchanged

NextRefresh ==
  \/ NextMuc
  \/ RefreshStart
  \/ RefreshTest
  \/ RefreshPublish

SpecRefresh == InitRefresh /\ [][NextRefresh]_vars

(***************************************************************************)
(* SpecFlow: two TradeManagers, the maker of an order and its taker, pass  *)
(* each other the replies of TakeOrder and ProcessMessage, as Daemon does  *)
(* over private chat messages and as TakeOrder of TradeFlowTests does.     *)
(* Both wallets and GSPs answer without fault.  own_orders, published,     *)
(* trades and walletLocked hold one value per party; pc is "start" before  *)
(* TakeOrder, "flight" while a message is on its way and "done" when a     *)
(* call gave no reply; loc holds the message on its way, the party it is   *)
(* for, the content of the messages sent so far, the parties whose         *)
(* sendrawtransaction returned and the order as it was advertised.         *)
(***************************************************************************)
Maker == Me

Taker == "al"

Parties == {Maker, Taker}

Other(p) == IF p = Maker THEN Taker ELSE Maker

FlowPrices == {0, 1, 3}

FlowOrders ==
  {[NoOrder EXCEPT !.asset = Asset, !.type = ty, !.price_sat = p,
                   !.max_units = m] :
     ty \in OrderTypes, p \in FlowPrices, m \in 1..2}

\* What the wallet, the GSP and the asset spec of the party p answer in a
\* trade for the advertised order o: the seller owns the name output, the
\* buyer the coin, each wallet signs its own inputs.
HonestAnswers(p, o) ==
  LET sells == (p = Maker) <=> (o.type = "ASK")
  IN  [fault |-> "none", nameOut |-> NameOut, addrN |-> "a1",
       addrC |-> "a2", canSign |-> IF sells THEN {NameOut} ELSE Coins,
       chk |-> GoodCheck, sellerOut |-> NameOut, coin |-> "c1",
       bad |-> {}]

\* The parts a message carries.
Kinds(msg) ==
  (IF msg.has_taking_order THEN {"taking_order"} ELSE {})
    \cup (IF msg.has_seller_data THEN {"seller_data"} ELSE {})
    \cup (IF msg.has_psbt THEN {"psbt"} ELSE {})

NoFlight == [to |-> NoStr, msg |-> NoMsg, log |-> <<>>, bcastBy |-> {},
             order |-> NoOrder]

InitFlow ==
  /\ own_orders \in {[p \in Parties |->
                        IF p = Maker THEN <<o1, o2>> ELSE <<>>] :
                      o1 \in FlowOrders,
                      o2 \in {o \in FlowOrders : o.price_sat = 1 /\ o.max_units = 2}}
  /\ next_free_id = 3
  /\ published = [p \in Parties |-> own_orders[p]]
  /\ trades = [p \in Parties |-> <<>>]
  /\ walletLocked = [p \in Parties |-> {}]
  /\ archive = <<>>
  /\ finalised = <<>>
  /\ mempool = {}
  /\ now = 0
  /\ crashed = FALSE
  /\ last = NoCall
  /\ pc = "start"
  /\ loc = NoFlight
  /\ held = {}
  /\ cancelled = {}
  /\ InitBook

\* The result r of a call of the party p's manager, and where its reply
\* goes.
FlowCall(p, r, o) ==
  /\ own_orders' = [own_orders EXCEPT ![p] = r.orders]
  /\ published' = [published EXCEPT ![p] = r.published]
  /\ trades' = [trades EXCEPT ![p] = r.trades]
  /\ walletLocked' = [walletLocked EXCEPT ![p] = r.wl]
  /\ mempool' = mempool \cup r.bcast
  /\ crashed' = (r.end = "fatal")
  /\ pc' = IF r.ok THEN "flight" ELSE "done"
  /\ loc' = [to |-> IF r.ok THEN Other(p) ELSE NoStr,
             msg |-> IF r.ok THEN r.reply ELSE NoMsg,
             log |-> IF r.ok THEN Append(loc.log, Kinds(r.reply))
                     ELSE loc.log,
             bcastBy |-> loc.bcastBy
                           \cup (IF r.bcast # {} THEN {p} ELSE {}),
             order |-> o]
  /\ UNCHANGED <<next_free_id, archive, finalised, now, held, cancelled>>

\* Daemon::TakeOrder of the taker for one of the maker's published orders.
FlowTake ==
  /\ ~crashed /\ pc = "start"
  /\ \E id \in DOMAIN published[Maker] :
       LET o == [published[Maker][id] EXCEPT !.account = Maker, !.id = id]
       IN  \E n \in MinUnits(o)..o.max_units :
             LET r == TakeOrder(own_orders[Taker], published[Taker],
                                trades[Taker], Taker, o, n, now,
                                walletLocked[Taker], HonestAnswers(Taker, o))
             IN  /\ FlowCall(Taker, r, o)
                 /\ last' = Call("TakeOrder", r.ok, r.reply, r.end)

\* The message on its way arrives: the receiver sees the sender as its
\* counterparty, and ProcessMessage runs.
FlowDeliver ==
  /\ ~crashed /\ pc = "flight"
  /\ LET p == loc.to
         msg == [loc.msg EXCEPT !.counterparty = Other(p)]
         r == ProcessMessage(own_orders[p], published[p], trades[p], p, msg,
                             now, walletLocked[p],
                             HonestAnswers(p, loc.order))
     IN  /\ FlowCall(p, r, loc.order)
         /\ last' = Call("ProcessMessage", r.ok, r.reply, r.end)

NextFlow ==
  /\ FlowTake \/ FlowDeliver \/ Tick
  /\ UNCHANGED bookVars

SpecFlow == InitFlow /\ [][NextFlow]_vars

(***************************************************************************)
(* Claims about one trade (checked under SpecTrade)                        *)
(***************************************************************************)
AllowedTransitions ==
  {<<"INITIATED", "PENDING">>, <<"INITIATED", "ABANDONED">>,
   <<"PENDING", "SUCCESS">>, <<"PENDING", "FAILED">>}

\* C1: the state of a trade changes only along INITIATED->PENDING,
\* INITIATED->ABANDONED, PENDING->SUCCESS and PENDING->FAILED; in SUCCESS,
\* FAILED and ABANDONED no call changes the trade again; HandleMessage and
\* HasReply change nothing (trade, wallet locks, broadcasts) unless the
\* state is INITIATED.
C1_TradeStateMachine ==
  [][/\ \/ trades'[1].state = trades[1].state
        \/ <<trades[1].state, trades'[1].state>> \in AllowedTransitions
     /\ trades[1].state \in {"SUCCESS", "FAILED", "ABANDONED"}
          => trades' = trades
     /\ last'.op \in {"HandleMessage", "HasReply"}
          /\ trades[1].state # "INITIATED"
          => UNCHANGED <<trades, walletLocked, mempool>>]_vars

C1_Witness ==
  /\ trades[1].state \in {"SUCCESS", "FAILED", "ABANDONED"}
  /\ last.op \in {"HandleMessage", "HasReply"}

\* The seller's conditions on the buyer's PSBT p for the trade t, stated
\* on the content of the PSBTs.
PaysSeller(p, t) ==
  \/ t.order.price_sat * t.units = 0
  \/ \E i \in DOMAIN p.vout :
       /\ p.vout[i].nameOp = NoNameOp
       /\ p.vout[i].addr = t.seller_data.chi_address
       /\ p.vout[i].value >= t.order.price_sat * t.units

UpdatesSellerName(p, t) ==
  \E i \in DOMAIN p.vout :
    /\ p.vout[i].nameOp =
         [op |-> "name_update", name |-> <<"p", Me>>,
          value |-> <<"g", Me, t.counterparty, t.order.asset, t.units,
                      "dem">>]
    /\ p.vout[i].addr = t.seller_data.name_address

OnlyNameInputSigned(before, after, t) ==
  /\ \E i \in DOMAIN before.vin : before.vin[i] = t.seller_data.name_output
  /\ \A i \in DOMAIN before.vin :
       (\E j \in 1..(i - 1) : before.vin[j] = t.seller_data.name_output)
         \/ before.vin[i] # t.seller_data.name_output
         => before.sigs[i] = after.sigs[i]

SellerAboutToSign(t) ==
  /\ t.state = "INITIATED"
  /\ GetOrderType(t, Me) = "ASK"
  /\ t.has_seller_data
  /\ t.their_psbt # NoPsbt
  /\ t.our_psbt = NoPsbt

\* C3: as seller, HasReply stores a signed our_psbt only if the outputs of
\* their_psbt pay the seller and update the name as agreed, signing changed
\* no input but the seller's name input, and the result is complete for a
\* MAKER and incomplete for a TAKER; when it stores none, the trade is
\* unchanged, there is no reply and nothing is broadcast.
C3_SellerSignsOnlyChecked ==
  [][last'.op = "HasReply" /\ now' = now /\ SellerAboutToSign(trades[1]) =>
       IF trades'[1].our_psbt # NoPsbt
       THEN /\ PaysSeller(trades[1].their_psbt, trades[1])
            /\ UpdatesSellerName(trades[1].their_psbt, trades[1])
            /\ OnlyNameInputSigned(trades[1].their_psbt,
                                   trades'[1].our_psbt, trades[1])
            /\ GetRole(trades[1], Me) = "MAKER"
                 <=> AllSigned(trades'[1].our_psbt)
       ELSE /\ Pb(trades'[1]) = Pb(trades[1])
            /\ ~last'.ret
            /\ mempool' = mempool]_vars

C3_Witness ==
  /\ GetOrderType(trades[1], Me) = "ASK"
  /\ trades[1].our_psbt # NoPsbt
  /\ last.op = "HasReply"

(***************************************************************************)
(* Claims about MyOrders under concurrency (checked under SpecOrders)      *)
(***************************************************************************)
\* The lock of the order id has been given out: TryLock returned success
\* (and Unlock was not called since), or a TryLock that succeeded is still
\* in its refresh.
Granted(id) ==
  \/ id \in held
  \/ \E th \in Threads : loc[th].op = "TryLock" /\ loc[th].id = id

\* C5: from the return of a successful TryLock (id) until Unlock (id) is
\* called, no set handed to UpdateOrders contains the id.
C5_LockedNotBroadcast ==
  [][\A th \in Threads :
       pc[th] = "publish" /\ pc'[th] = "idle"
         => held' \cap DOMAIN published' = {}]_vars

\* C6: TryLock succeeds iff the order exists and is not locked; it then
\* sets the flag and returns a copy of the order with account and id; on
\* failure the own orders are unchanged; it never succeeds for an id whose
\* lock is given out.
C6_TryLockAtomic ==
  [][\A th \in Callers, id \in 1..MaxId :
       MoTryLock(th, id) =>
         LET avail == id \in DOMAIN own_orders /\ ~own_orders[id].locked
         IN  /\ pc'[th] = "validate" <=> avail
             /\ avail =>
                  /\ own_orders' = [own_orders EXCEPT ![id].locked = TRUE]
                  /\ loc'[th].res
                  /\ loc'[th].out = [own_orders[id] EXCEPT !.account = Me,
                                                           !.id = id]
                  /\ ~Granted(id)
             /\ ~avail => own_orders' = own_orders /\ loc'[th] = NoLoc]_vars

C6_Witness ==
  \E th \in Callers :
    /\ loc[th].op = "TryLock" /\ loc[th].res
    /\ loc[th].id \in DOMAIN own_orders
    /\ own_orders[loc[th].id].locked
    /\ \E o \in Callers \ {th} : pc[o] = "idle"

(***************************************************************************)
(* Claims about the process (checked under Spec)                           *)
(***************************************************************************)
\* A step of the post-finalisation with the answers f (wallet) and bad
\* (asset spec).
PostStep(f, bad) == PostFinalise([fault |-> f, bad |-> bad])

PostInputs == BadSets(DOMAIN own_orders \cup {next_free_id})

\* C2: no two active trades have the same (maker account, order id).
C2_NoDuplicateTrades ==
  \A i, j \in DOMAIN trades :
    i # j => GetIdentifier(trades[i]) # GetIdentifier(trades[j])

\* C4: a pass of the updater sets every trade that has been INITIATED for
\* longer than the timeout to ABANDONED and moves it to the archive; it
\* leaves a trade that has been INITIATED for no longer than the timeout
\* as it is; and it never abandons a PENDING trade.
C4_TimeoutAbandons ==
  [][UpdaterPass =>
       \A i \in DOMAIN trades :
         LET t == trades[i]
             a == [t EXCEPT !.state = "ABANDONED"]
             overdue == now - t.start_time > TradeTimeout
         IN  /\ t.state = "INITIATED" /\ overdue =>
                  /\ t \notin SeqToSet(trades')
                  /\ a \in SeqToSet(finalised')
                  /\ \E k \in DOMAIN archive' :
                       /\ k > Len(archive)
                       /\ archive'[k] = GetPublicInfo(a, Me)
             /\ t.state = "INITIATED" /\ ~overdue => t \in SeqToSet(trades')
             /\ t.state = "PENDING" => a \notin SeqToSet(finalised')]_vars

\* C7: RemoveById never ends the process, neither in the call itself nor
\* later in the post-finalisation of the trade that holds the lock of the
\* removed order.
C7_RemoveNeverFatal ==
  [][/\ UserRemove => ~crashed'
     /\ \A f \in PostFaults, bad \in PostInputs :
          /\ PostStep(f, bad)
          /\ GetRole(Head(finalised), Me) = "MAKER"
          /\ Head(finalised).order.id \in cancelled
          => ~crashed']_vars

\* C8: when the post-finalisation of a FAILED or ABANDONED trade has run
\* to its end (the wallet carrying out the unlock calls), no output that
\* was locked on behalf of the trade is locked in the wallet.
C8_LocksReleased ==
  [][\A bad \in PostInputs :
       /\ PostStep("none", bad)
       /\ ~crashed'
       /\ Head(finalised).state \in {"FAILED", "ABANDONED"}
       => Head(finalised).locks \cap walletLocked' = {}]_vars

\* C9: after the post-finalisation of a FAILED or ABANDONED trade in which
\* this process is the maker (all orders passing the validation), the order
\* is present under its id with the same fields, not locked, and in the set
\* handed to UpdateOrders.
C9_OrderRestored ==
  [][\A f \in PostFaults :
       /\ PostStep(f, {})
       /\ Head(finalised).state \in {"FAILED", "ABANDONED"}
       /\ GetRole(Head(finalised), Me) = "MAKER"
       => LET o == Head(finalised).order
              stored == [o EXCEPT !.account = NoStr, !.id = Unset,
                                  !.locked = FALSE]
          IN  /\ o.id \in DOMAIN own_orders'
              /\ own_orders'[o.id] = stored
              /\ o.id \in DOMAIN published'
              /\ published'[o.id] = stored]_vars

\* The effect of a SUCCESS on the own orders, for the trade t: readd says
\* whether the reduced order is to be present afterwards.
SuccessEffect(t, readd) ==
  LET o == t.order
      rest == o.max_units - t.units
      reduced == [o EXCEPT !.account = NoStr, !.id = Unset,
                           !.max_units = rest]
  IN  IF GetRole(t, Me) # "MAKER" THEN own_orders' = own_orders
      ELSE /\ o.id \notin DOMAIN own_orders'
           /\ IF readd
              THEN /\ DOMAIN own_orders' \ DOMAIN own_orders = {next_free_id}
                   /\ own_orders'[next_free_id] = reduced
                   /\ ~own_orders'[next_free_id].locked
                   /\ next_free_id' = next_free_id + 1
                   /\ next_free_id \notin cancelled
                   /\ \A i \in DOMAIN trades :
                        GetRole(trades[i], Me) = "MAKER"
                          => trades[i].order.id < next_free_id
                   /\ o.id < next_free_id
              ELSE /\ DOMAIN own_orders' \subseteq DOMAIN own_orders
                   /\ next_free_id' = next_free_id

Remainder(t) == t.order.max_units - t.units

C11_TradesWellFormed ==
  \A i \in DOMAIN trades :
    LET t == trades[i]
        o == t.order
    IN  /\ t.units >= 1
        /\ Val(o.min_units) <= t.units /\ t.units <= o.max_units
        /\ o.account # NoStr /\ o.id # Unset /\ o.asset # NoStr
        /\ o.type # NoStr /\ o.price_sat # Unset
        /\ t.counterparty # Me

\* The taking_order of msg cannot be served: the own order is absent, is
\* locked, or cannot be taken for the units asked for.
Unavailable(msg) ==
  LET id == msg.taking_order.id
  IN  \/ id \notin DOMAIN own_orders
      \/ own_orders[id].locked
      \/ ~CheckOrder([own_orders[id] EXCEPT !.account = Me, !.id = id],
                     msg.taking_order.units)

\* C12: a message with a taking_order that cannot be served is rejected:
\* no trade is created, there is no reply, the process keeps running and
\* every own order has the lock flag it had before.
C12_TakingRejected ==
  [][\A msg \in TakingMessages(1..next_free_id),
        x \in ManagerAnswers(DOMAIN own_orders) :
       LET r == ProcessMessage(own_orders, published, trades, Me, msg, now,
                               walletLocked, x)
       IN  ManagerCall(r) /\ Unavailable(msg)
             => /\ ~r.ok /\ r.reply = NoMsg
                /\ trades' = trades
                /\ ~crashed'
                /\ \A id \in DOMAIN own_orders' :
                     /\ id \in DOMAIN own_orders
                     /\ own_orders'[id].locked = own_orders[id].locked]_vars

\* C13: when a wallet call throws during TakeOrder, TakeOrder returns
\* false, the active trades are as before, and no output locked during
\* the call stays locked in the wallet.
C13_TakeOrderException ==
  [][\A o \in RemoteOrders, n \in Units, x \in ManagerAnswers({}) :
       LET r == TakeOrder(own_orders, published, trades, Me, o, n, now,
                          walletLocked, x)
           h == HasReply(NewTrade(o, n, o.account, now), Me, walletLocked, x)
       IN  /\ ManagerCall(r)
           /\ Len(trades) + Len(archive) < MaxTrades
           /\ CheckOrder(o, n) /\ o.account # Me
           /\ h.end = "threw"
           => /\ ~r.ok
              /\ trades' = trades
              /\ walletLocked' = walletLocked]_vars

\* The messages a peer may send in the current state, and the answers of
\* the wallet, the GSP and the asset spec to one call of ProcessMessage.
InboundMessages ==
  TakingMessages(1..next_free_id)
    \cup UNION {TradeMessages(trades[i]) : i \in DOMAIN trades}

\* C14: when a wallet call throws while ProcessMessage handles a message,
\* there is no reply, the process keeps running, nothing is broadcast, the
\* trade the message is for stays INITIATED and every other active trade
\* is unchanged.
C14_ProcessMessageException ==
  [][\A msg \in InboundMessages, x \in ManagerAnswers(DOMAIN own_orders) :
       LET r == ProcessMessage(own_orders, published, trades, Me, msg, now,
                               walletLocked, x)
       IN  (/\ UNCHANGED <<next_free_id, archive, finalised, now>>
            /\ x.fault # "none"
            /\ r.end = "caught"
            /\ ManagerCall(r))
             => /\ ~r.ok /\ r.reply = NoMsg
                /\ ~crashed'
                /\ mempool' = mempool
                /\ Len(trades') \in {Len(trades), Len(trades) + 1}
                /\ \E i \in DOMAIN trades' :
                     /\ Matches(trades'[i], msg)
                     /\ trades'[i].state = "INITIATED"
                     /\ \A j \in DOMAIN trades :
                          j # i => trades'[j] = trades[j]]_vars

\* A maker trade whose HasReply threw after it had locked an output: the
\* lock is recorded, our_psbt (and, for a seller, the seller data) is not.
C14_Witness ==
  \E i \in DOMAIN trades :
    /\ GetRole(trades[i], Me) = "MAKER"
    /\ trades[i].state = "INITIATED"
    /\ trades[i].locks # {}
    /\ trades[i].our_psbt = NoPsbt
    /\ GetOrderType(trades[i], Me) = "ASK" => ~trades[i].has_seller_data

\* C15: a pass of the updater in which a wallet or GSP call throws for one
\* trade leaves the process running and loses or duplicates no trade: the
\* trades of the pass are the remaining active trades and the finalised
\* ones, each of which got one new entry in the archive; and a wallet call
\* that throws in the post-finalisation of one trade (whose order, for a
\* maker, is in place and locked) leaves the process running with the
\* remaining finalised trades still to be handled.
C15_UpdaterIsolation ==
  [][/\ UpdaterPass =>
          /\ ~crashed'
          /\ Len(trades') + Len(finalised') = Len(trades)
          /\ Len(archive') = Len(archive) + Len(finalised')
     /\ \A f \in PostFaults \ {"none"}, bad \in PostInputs :
          /\ PostStep(f, bad)
          /\ GetRole(Head(finalised), Me) = "MAKER" =>
               /\ Head(finalised).order.id \in DOMAIN own_orders
               /\ own_orders[Head(finalised).order.id].locked
          => ~crashed' /\ finalised' = Tail(finalised)]_vars

\* What identifies a trade while its state changes.
TradeKey(t) == <<t.order, t.counterparty, t.units, t.start_time>>

\* The trades of sub are trades of full in the order they have in full.
OrderKept(sub, full) ==
  \E f \in [DOMAIN sub -> DOMAIN full] :
    /\ \A i, j \in DOMAIN sub : i < j => f[i] < f[j]
    /\ \A i \in DOMAIN sub : TradeKey(sub[i]) = TradeKey(full[f[i]])

\* What a pass of the updater does in its locked section: no finalised
\* trade stays active, the finalised ones are appended to the archive as
\* their public view, the others keep their order, and nothing that the
\* post-finalisation works on is touched.
PassArchives ==
  /\ \A i \in DOMAIN trades' : ~IsFinalised(trades'[i])
  /\ \A i \in DOMAIN finalised' : IsFinalised(finalised'[i])
  /\ Len(trades') + Len(finalised') = Len(trades)
  /\ OrderKept(trades', trades)
  /\ OrderKept(finalised', trades)
  /\ archive' = archive \o [i \in DOMAIN finalised' |->
                              GetPublicInfo(finalised'[i], Me)]
  /\ UNCHANGED <<own_orders, next_free_id, published, walletLocked>>

\* C37: after a pass of the updater no active trade is SUCCESS, FAILED or
\* ABANDONED, each trade finalised in the pass was appended once to the
\* archive as its public view, the remaining trades keep their order, and
\* the post-finalisation of each finalised trade runs exactly once, after
\* the locked section: one run completes and takes exactly the first
\* trade that waits for it.
C37_UpdaterPass ==
  [][/\ UpdaterPass => PassArchives
     /\ \A f \in PostFaults, bad \in PostInputs :
          PostStep(f, bad)
            => /\ ~crashed'
               /\ finalised' = Tail(finalised)
               /\ UNCHANGED <<trades, archive>>]_vars

\* What holds of C37: the pass itself, and every post-finalisation that
\* returns.
C37_CompletedPass ==
  [][/\ UpdaterPass => PassArchives
     /\ \A f \in PostFaults, bad \in PostInputs :
          PostStep(f, bad) /\ ~crashed'
            => /\ finalised' = Tail(finalised)
               /\ UNCHANGED <<trades, archive>>]_vars

\* A pass has archived a trade and left another one active.
C37_Archived ==
  /\ archive # <<>> /\ trades # <<>> /\ finalised # <<>>
  /\ ~crashed

\* C40: every active trade in state PENDING holds our_psbt, and every
\* trade in which we sell and that holds seller data holds the name
\* outpoint in it; so the CHECKs of these fields in Update and in
\* CheckForSellerSignature hold whenever they are reached.
C40_FieldsPresent ==
  \A i \in DOMAIN trades :
    LET t == trades[i]
    IN  /\ t.state = "PENDING" => t.our_psbt # NoPsbt
        /\ Seller(t, Me) = Me /\ t.has_seller_data
             => t.seller_data.name_output # NoStr

\* We sell in a PENDING trade: it holds our seller data with the name
\* outpoint and our signed transaction.
C40_Witness ==
  \E i \in DOMAIN trades :
    /\ trades[i].state = "PENDING"
    /\ Seller(trades[i], Me) = Me
    /\ trades[i].has_seller_data
    /\ trades[i].seller_data.name_output = NameOut
    /\ trades[i].our_psbt # NoPsbt

\* C20: every order returned by get_own_orders, after any adds, cancels,
\* refreshes, locks and finalisations (the re-added reduced orders
\* included), has 1 <= min_units <= max_units and a price_sat >= 0.
C20_OwnOrdersWellFormed ==
  \A id \in DOMAIN InternalGetOrders(own_orders, TRUE) :
    LET o == InternalGetOrders(own_orders, TRUE)[id]
    IN  /\ 1 <= MinUnits(o) /\ MinUnits(o) <= o.max_units
        /\ o.price_sat # Unset /\ o.price_sat >= 0

\* get_own_orders returns a reduced order that was re-added after a trade
\* for one of its two units.
C20_Witness ==
  \E id \in DOMAIN InternalGetOrders(own_orders, TRUE) :
    LET o == InternalGetOrders(own_orders, TRUE)[id]
    IN  /\ id > MaxId
        /\ MinUnits(o) = 1 /\ o.max_units = 1
        /\ archive # <<>>

\* C21: a successful add stores the order under the previous
\* next_free_id, which never decreases and is consumed only by an order
\* that is stored, and the stored order has no account and no id and is
\* not locked, whatever the order handed in had set.
C21_AddFreshUnlocked ==
  [][/\ next_free_id' >= next_free_id
     /\ next_free_id' # next_free_id =>
          /\ next_free_id' = next_free_id + 1
          /\ next_free_id \in DOMAIN own_orders'
     /\ \A id \in DOMAIN own_orders' \ DOMAIN own_orders :
          /\ id = next_free_id
          /\ own_orders'[id].account = NoStr
          /\ own_orders'[id].id = Unset
          /\ ~own_orders'[id].locked]_vars

(***************************************************************************)
(* Claims about single calls (checked under SpecCalls)                     *)
(***************************************************************************)
Returned(fn) == pc = "returned" /\ loc.fn = fn

\* C22: for all amounts p and u the total is computed with success and
\* equals p * u if the product is representable, the computation signals
\* failure if the product overflows, and it succeeds with total 0 whenever
\* p = 0 or u = 0.
C22_TotalSat ==
  Returned("GetTotalSat") =>
    /\ ~crashed
    /\ IF loc.price * loc.units \in Amounts
       THEN loc.ok /\ loc.total = loc.price * loc.units
       ELSE ~loc.ok
    /\ loc.price = 0 \/ loc.units = 0 => loc.ok /\ loc.total = 0

\* The two hex digits (lower case) of the byte c.
HexDigit(v) == IF v < 10 THEN 48 + v ELSE 97 + v - 10

RECURSIVE HexOf(_)
HexOf(b) ==
  IF b = <<>> THEN <<>>
  ELSE <<HexDigit(Head(b) \div 16), HexDigit(Head(b) % 16)>> \o HexOf(Tail(b))

\* The local part of an account name: the name itself if it is not empty
\* and all its bytes are in [0-9a-z], and "x-" with the hex digits of
\* its bytes if not.
EncodeName(account) ==
  IF account # <<>> /\ \A i \in DOMAIN account : IsSimpleChar(account[i])
  THEN account
  ELSE ENCODED_PREFIX \o HexOf(account)

\* name is "x-" and then something.
HexForm(name) ==
  Len(name) > Len(ENCODED_PREFIX)
    /\ SubSeq(name, 1, Len(ENCODED_PREFIX)) = ENCODED_PREFIX

\* C23: decoding is injective on the accepted local parts: no other local
\* part decodes to the same account, and encoding the decoded account
\* gives the local part back; the empty local part, hex of odd length,
\* hex with an upper-case digit and the hex form of a non-empty all-simple
\* name are rejected.
C23_DecodeInjective ==
  Returned("DecodeName") =>
    LET name == loc.name
        hexPart == SubSeq(name, Len(ENCODED_PREFIX) + 1, Len(name))
    IN  /\ loc.ok =>
             /\ EncodeName(loc.decoded) = name
             /\ \A m \in NameInputs :
                  DecodeName(m).ok /\ DecodeName(m).decoded = loc.decoded
                    => m = name
        /\ name = <<>> => ~loc.ok
        /\ HexForm(name) /\ Len(hexPart) % 2 = 1 => ~loc.ok
        /\ HexForm(name) /\ (\E i \in DOMAIN hexPart : hexPart[i] = 68)
             => ~loc.ok
        /\ HexForm(name) /\ (\E a \in NameInputs :
                                /\ a # <<>>
                                /\ \A i \in DOMAIN a : IsSimpleChar(a[i])
                                /\ hexPart = HexOf(a))
             => ~loc.ok

\* "x-622d" was decoded to "b-".
C23_Witness ==
  /\ Returned("DecodeName") /\ loc.ok
  /\ loc.name = <<120, 45, 54, 50, 50, 100>>
  /\ loc.decoded = <<98, 45>>

\* Some single output without name operation pays at least total to the
\* chi address.
PaidBySingleOutput(vout, total) ==
  \E i \in DOMAIN vout :
    /\ vout[i].nameOp = NoNameOp
    /\ vout[i].addr = CheckSd.chi_address
    /\ vout[i].value >= total

\* vout without its i-th output.
DropOutput(vout, i) ==
  [k \in 1..(Len(vout) - 1) |-> IF k < i THEN vout[k] ELSE vout[k + 1]]

\* The call of CheckForSellerOutputs that returned accepted / rejected.
Accepted == Returned("CheckForSellerOutputs") /\ ~crashed /\ loc.ok

Rejected == Returned("CheckForSellerOutputs") /\ ~crashed /\ ~loc.ok

\* The check rejected, although the outputs without one that is neither
\* the payment nor the name update are accepted.
RejectedForExtraOutput ==
  /\ Rejected
  /\ loc.price * loc.units \in Amounts
  /\ \E i \in DOMAIN loc.vout :
       /\ loc.vout[i].addr \notin {CheckSd.chi_address, CheckSd.name_address}
       /\ CheckForSellerOutputs([NoPsbt EXCEPT
                                  !.vout = DropOutput(loc.vout, i)],
                                CheckSd, "al", Me, Asset, loc.price,
                                loc.units)

C30_WithoutOverflow ==
  /\ Accepted /\ loc.price * loc.units \in Amounts
       => \/ loc.price * loc.units = 0
          \/ PaidBySingleOutput(loc.vout, loc.price * loc.units)
  /\ ~RejectedForExtraOutput

\* An accepted call with an extra output, and one rejected although split
\* payments sum to the total and a name output pays enough.
C30_AcceptedWithExtra ==
  /\ Accepted /\ loc.price * loc.units = 4
  /\ \E i \in DOMAIN loc.vout : loc.vout[i].addr = "zz"

C30_SplitRejected ==
  /\ Rejected /\ loc.price * loc.units = 4 /\ Len(loc.vout) = 3
  /\ \E i, j \in DOMAIN loc.vout :
       /\ i # j
       /\ loc.vout[i].nameOp = NoNameOp /\ loc.vout[i].addr = "a2"
       /\ loc.vout[j].nameOp = NoNameOp /\ loc.vout[j].addr = "a2"
       /\ loc.vout[i].value + loc.vout[j].value = 4
  /\ \E i \in DOMAIN loc.vout :
       IsExpectedNameOutput(loc.vout[i], "al", Me, Asset, loc.units, CheckSd)

\* The outputs of vout that update the seller's name with the agreed move
\* and pay to the name address.
SellerNameUpdates(vout, units) ==
  {i \in DOMAIN vout :
     /\ vout[i].nameOp # NoNameOp
     /\ vout[i].nameOp.op = "name_update"
     /\ vout[i].nameOp.name = <<"p", "al">>
     /\ vout[i].nameOp.value = <<"g", "al", Me, Asset, units, "dem">>
     /\ vout[i].addr = CheckSd.name_address}

\* C31: CheckForSellerOutputs accepts only if exactly one output is a
\* name_update of the seller's name with the agreed move as value, paid to
\* name_address; with none or with more than one it rejects.
C31_ExactlyOneNameOutput ==
  Accepted => Cardinality(SellerNameUpdates(loc.vout, loc.units)) = 1

\* The same with "at least one" in the place of "exactly one".
C31_SomeNameOutput ==
  /\ Accepted => SellerNameUpdates(loc.vout, loc.units) # {}
  /\ Rejected /\ loc.price = 0 => SellerNameUpdates(loc.vout, loc.units) = {}

\* A rejected call whose only name output differs in the operation.
C31_WrongOperationRejected ==
  /\ Rejected /\ loc.price = 0 /\ Len(loc.vout) = 1
  /\ loc.vout[1].nameOp # NoNameOp
  /\ loc.vout[1].nameOp.op = "name_register"

\* The inputs without signature after the wallet signed, and those the
\* signing left as they were.
Unsigned(p) == {i \in DOMAIN p.sigs : ~p.sigs[i]}

LeftUnchanged(b, a) == {i \in DOMAIN b.sigs : b.sigs[i] = a.sigs[i]}

\* C32: CheckForBuyerSignature succeeds only if after the signing exactly
\* one input is without signature, that input is the seller's name input,
\* and every other input got its signature in the signing; it fails when
\* every input got signed and when two or more inputs are left unchanged.
C32_BuyerSignature ==
  Returned("CheckForBuyerSignature") =>
    /\ loc.ok
         => /\ Cardinality(Unsigned(loc.after)) = 1
            /\ \A i \in Unsigned(loc.after) : loc.after.vin[i] = NameOut
            /\ \A i \in DOMAIN loc.after.sigs \ Unsigned(loc.after) :
                 ~loc.before.sigs[i]
    /\ LeftUnchanged(loc.before, loc.after) = {} => ~loc.ok
    /\ Cardinality(LeftUnchanged(loc.before, loc.after)) >= 2 => ~loc.ok

\* What the check does establish: exactly one input is left unchanged.
C32_OneInputUnchanged ==
  Returned("CheckForBuyerSignature") =>
    (loc.ok <=> Cardinality(LeftUnchanged(loc.before, loc.after)) = 1)

\* C33: CheckForSellerSignature succeeds iff the seller's name outpoint is
\* among the inputs and every input at another position is the same
\* before and after the signing, whatever signatures were there before.
C33_SellerSignature ==
  Returned("CheckForSellerSignature") =>
    (loc.ok <=> /\ \E i \in DOMAIN loc.before.vin :
                     loc.before.vin[i] = NameOut
                /\ \A i \in DOMAIN loc.before.vin :
                     loc.before.vin[i] # NameOut
                       => loc.before.sigs[i] = loc.after.sigs[i])

C33_Witness ==
  /\ Returned("CheckForSellerSignature")
  /\ loc.ok
  /\ Len(loc.before.vin) = 3
  /\ \E i, j \in DOMAIN loc.before.vin :
       /\ loc.before.vin[i] = NameOut
       /\ ~loc.before.sigs[i] /\ loc.after.sigs[i]
       /\ j # i /\ loc.before.sigs[j]

\* The block k steps back from b on the chain (Unset before genesis).
RECURSIVE BlockBack(_, _)
BlockBack(b, k) ==
  IF b = Unset THEN Unset
  ELSE IF k = 0 THEN b
  ELSE BlockBack(ChainPrev[b], k - 1)

\* The block a is b or comes before b on b's branch.
NotAfter(a, b) == \E k \in 0..(ChainLen + 1) : BlockBack(b, k) = a

\* C34: CheckForBuyerTrade succeeds only if is_asset and can_buy hold, the
\* outpoint is unspent, can_sell holds at the GSP's block and the block at
\* which the outpoint was seen unspent is the GSP's block or one of its
\* first three ancestors; it fails when that block is a descendant of the
\* GSP's block, more than three blocks back or not an ancestor at all; so
\* the name output of an accepted trade was not created after the GSP's
\* block.
C34_BuyerTrade ==
  Returned("CheckForBuyerTrade") =>
    /\ loc.ok
         <=> /\ loc.isAsset /\ loc.canBuy /\ loc.utxoFound /\ loc.canSell
             /\ \E k \in 0..3 : BlockBack(loc.gspBlock, k) = loc.utxoBlock
    /\ loc.utxoBlock # loc.gspBlock /\ NotAfter(loc.gspBlock, loc.utxoBlock)
         => ~loc.ok
    /\ ~NotAfter(loc.utxoBlock, loc.gspBlock) => ~loc.ok
    /\ loc.ok => NotAfter(loc.created, loc.gspBlock)

C34_Witness ==
  /\ Returned("CheckForBuyerTrade")
  /\ loc.ok
  /\ BlockBack(loc.gspBlock, 3) = loc.utxoBlock
  /\ loc.created # loc.utxoBlock

\* C35: HandleMessage stores inbound seller data only if we are the buyer,
\* hold no seller data yet, both addresses are present and different and no
\* name outpoint is included; it stores an inbound PSBT as their_psbt only
\* if no their_psbt is held yet; everything else of the trade is left as it
\* was, so seller data and their_psbt once held are never replaced.
C35_WriteOnce ==
  Returned("HandleMessage") =>
    LET t   == loc.t
        a   == loc.after
        msg == loc.msg
        sd  == msg.seller_data
    IN  /\ (a.has_seller_data # t.has_seller_data
              \/ a.seller_data # t.seller_data)
             => /\ msg.has_seller_data
                /\ Buyer(t, Me) = Me
                /\ ~t.has_seller_data
                /\ sd.name_address # NoStr /\ sd.chi_address # NoStr
                /\ sd.name_address # sd.chi_address
                /\ sd.name_output = NoStr
                /\ a.has_seller_data /\ a.seller_data = sd
        /\ a.their_psbt # t.their_psbt
             => /\ msg.has_psbt
                /\ t.their_psbt = NoPsbt
                /\ a.their_psbt = msg.psbt
        /\ [a EXCEPT !.has_seller_data = t.has_seller_data,
                     !.seller_data = t.seller_data,
                     !.their_psbt = t.their_psbt] = t
        /\ t.has_seller_data => a.seller_data = t.seller_data
        /\ t.their_psbt # NoPsbt => a.their_psbt = t.their_psbt

C35_Witness ==
  /\ Returned("HandleMessage")
  /\ loc.t.state = "INITIATED"
  /\ Buyer(loc.t, Me) = Me
  /\ loc.t.has_seller_data /\ loc.t.their_psbt # NoPsbt
  /\ loc.msg.has_seller_data /\ loc.msg.has_psbt
  /\ loc.msg.seller_data.name_address = "b3"
  /\ loc.msg.seller_data.name_output = NoStr
  /\ loc.msg.psbt # loc.t.their_psbt
  /\ loc.after = loc.t

C35_Stored ==
  /\ Returned("HandleMessage")
  /\ ~loc.t.has_seller_data /\ loc.t.their_psbt = NoPsbt
  /\ loc.after.seller_data = loc.msg.seller_data
  /\ loc.after.has_seller_data
  /\ loc.after.their_psbt = loc.msg.psbt
  /\ loc.msg.has_psbt

\* The trade t is between us and the account c under the identifier id.
TradeOf(t, c, id) == t.counterparty = c /\ GetIdentifier(t) = id

\* C36: ProcessMessage for a message of the account C changes at most one
\* active trade, and only one whose counterparty is C and whose identifier
\* is the message's (the trade made for the message's taking_order
\* counts as active); if there is no such trade, no trade is changed and
\* there is no reply; a trade with another counterparty is never changed
\* and a reply is addressed to C.
C36_Routing ==
  Returned("ProcessMessage") =>
    LET before  == loc.trs
        after   == loc.r.trades
        msg     == loc.msg
        n       == Len(before)
        made    == Len(after) > n
        fresh   == NewTrade([loc.orders[msg.taking_order.id]
                               EXCEPT !.account = Me,
                                      !.id = msg.taking_order.id],
                            msg.taking_order.units, msg.counterparty, 0)
        changed == {i \in DOMAIN before : after[i] # before[i]}
                     \cup {i \in {n + 1} : made /\ after[i] # fresh}
    IN  /\ Len(after) \in {n, n + 1}
        /\ made => msg.has_taking_order
        /\ Cardinality(changed) <= 1
        /\ \A i \in changed :
             TradeOf(after[i], msg.counterparty, msg.identifier)
        /\ \A i \in DOMAIN before :
             before[i].counterparty # msg.counterparty
               => after[i] = before[i]
        /\ made => after[n + 1].counterparty = msg.counterparty
        /\ (~\E i \in DOMAIN after :
                TradeOf(after[i], msg.counterparty, msg.identifier))
             => changed = {} /\ ~loc.r.ok /\ loc.r.reply = NoMsg
        /\ loc.r.ok => loc.r.reply.counterparty = msg.counterparty

\* A third party sends seller data under the identifier of a trade in
\* which we buy from another account.
C36_Witness ==
  /\ Returned("ProcessMessage")
  /\ Len(loc.trs) = 1
  /\ TradeOf(loc.trs[1], "al", <<"al", 1>>)
  /\ Buyer(loc.trs[1], Me) = Me
  /\ loc.msg.counterparty = "ev"
  /\ loc.msg.identifier = <<"al", 1>>
  /\ loc.msg.has_seller_data
  /\ loc.r.trades = loc.trs
  /\ ~loc.r.ok

\* The same message of the counterparty is handled and answered.
C36_Handled ==
  /\ Returned("ProcessMessage")
  /\ Len(loc.trs) = 2
  /\ TradeOf(loc.trs[2], "al", <<"al", 1>>)
  /\ TradeOf(loc.trs[1], "ev", <<"ev", 1>>)
  /\ loc.msg.counterparty = "al"
  /\ loc.msg.has_seller_data
  /\ loc.r.trades[2] # loc.trs[2]
  /\ loc.r.trades[1] = loc.trs[1]
  /\ loc.r.ok

\* The orders of the broadcast upd that pass the validation for account;
\* bad are the ones the asset spec rejects for it.
ValidOrders(account, upd, bad) ==
  {i \in DOMAIN upd :
     /\ upd[i].max_units > 0
     /\ upd[i].min_units # Unset
          => 0 < upd[i].min_units /\ upd[i].min_units <= upd[i].max_units
     /\ upd[i].price_sat # Unset /\ upd[i].price_sat >= 0
     /\ i \notin bad}

\* The broadcast loc.upd was stored: the process runs, the account of the
\* sender's jid holds exactly the valid orders of the broadcast (no entry
\* if there is none), the views name that account for each of them, and
\* the entries of the other accounts are as before.
BroadcastStored ==
  LET a     == Authenticate(<<>>, loc.jid)
      valid == ValidOrders(a.account, loc.upd, loc.bad)
      now1  == loc.r.book.orders
      view  == InternalGetByAsset(loc.r.book, {Asset})
  IN  /\ ~loc.r.fatal
      /\ \A acc \in (DOMAIN loc.book.orders \cup DOMAIN now1)
                     \ {a.account} :
           /\ acc \in DOMAIN loc.book.orders /\ acc \in DOMAIN now1
           /\ now1[acc] = loc.book.orders[acc]
      /\ IF valid = {} THEN a.account \notin DOMAIN now1
         ELSE /\ a.account \in DOMAIN now1
              /\ DOMAIN now1[a.account].orders = valid
              /\ \A i \in valid : now1[a.account].orders[i] = loc.upd[i]
              /\ \A i \in valid :
                   \E k \in DOMAIN view[Asset].bids
                            \cup DOMAIN view[Asset].asks :
                     \/ /\ k \in DOMAIN view[Asset].bids
                        /\ view[Asset].bids[k].account = a.account
                        /\ view[Asset].bids[k].id = i
                     \/ /\ k \in DOMAIN view[Asset].asks
                        /\ view[Asset].asks[k].account = a.account
                        /\ view[Asset].asks[k].id = i

\* C38: a broadcast is stored under the account authenticated from the
\* sender's jid, whatever account the payload names; the orders that fail
\* the validation for that account are dropped and the valid ones kept; a
\* broadcast of a sender that cannot be authenticated changes nothing.
C38_Broadcast ==
  Returned("HandleMessage_Daemon") =>
    IF Authenticate(<<>>, loc.jid).ok
    THEN BroadcastStored
    ELSE /\ loc.r.book = loc.book /\ loc.r.knownJids = <<>>
         /\ ~loc.r.fatal

\* What holds of C38: the same for the broadcasts in which every order
\* that passes the validation has its type field.
C38_TypedBroadcast ==
  Returned("HandleMessage_Daemon")
    /\ (\A i \in ValidOrders(Authenticate(<<>>, loc.jid).account,
                              loc.upd, loc.bad) :
          loc.upd[i].type # NoStr)
    => C38_Broadcast

\* A broadcast with a valid order that names another account and an
\* invalid one was stored under the sender's account.
C38_Stored ==
  /\ Returned("HandleMessage_Daemon")
  /\ Authenticate(<<>>, loc.jid).account = "al"
  /\ Len(loc.upd) = 2 /\ loc.bad = {}
  /\ loc.upd[1].account = "bo"
  /\ loc.upd[2].max_units = 0
  /\ loc.book # NoBook
  /\ DOMAIN loc.r.book.orders["al"].orders = {1}
  /\ ~loc.r.fatal

(***************************************************************************)
(* Claims about the refresh of the own orders (checked under SpecRefresh)  *)
(***************************************************************************)
\* C39: whenever a refresh enters PublishMessage the client is connected,
\* so the CHECK at its start holds and no refresh ends the process.
C39_PublishConnected ==
  pc["refresh"] = "publish" => IsConnected(loc)

\* What holds of C39: a refresh that finds the client disconnected hands
\* nothing to it, and without a disconnect since its test the broadcast
\* is sent.
C39_TestedBeforePublish ==
  [][/\ RefreshTest /\ ~IsConnected(loc) => pc'["refresh"] = "idle"
     /\ RefreshPublish /\ IsConnected(loc)
          => ~crashed' /\ loc'.sent = loc.sent + 1]_vars

\* A refresh has published and a later one was dropped while the client
\* was disconnecting.
C39_Published ==
  /\ loc.sent > 0 /\ loc.runs > loc.sent
  /\ pc["refresh"] = "idle" /\ ~crashed
  /\ ~loc.connected

(***************************************************************************)
(* Claims about the IntervalJob (checked under SpecJobFair)                *)
(***************************************************************************)
\* C24: the destruction of an IntervalJob terminates.  Once stop is set
\* the worker neither waits (it was woken by the notification, the stop
\* request is not lost) nor is inside the job; the job does not run after
\* the destructor has returned; and a destructor that has started
\* returns.
C24_JobStops ==
  /\ [](loc.stop => pc["worker"] \notin {"waiting", "job"})
  /\ [](pc["main"] = "returned" => pc["worker"] = "exited")
  /\ [][pc["worker"] = "job" /\ pc'["worker"] = "waiting"
         => pc["main"] = "alive"]_vars
  /\ (pc["main"] = "locked") ~> (pc["main"] = "returned")

\* The destructor has returned after it woke a waiting worker that had
\* run the job more than once.
C24_Witness ==
  /\ pc["main"] = "returned"
  /\ loc.wake = "notify"
  /\ loc.runs > 1

(***************************************************************************)
(* Claims about the chat client (checked under SpecMuc)                    *)
(***************************************************************************)
\* C25: under every interleaving of disconnect () with a disconnect
\* started from a handler, no assertion of the client fails and the
\* process is not terminated; when disconnect () has returned, the
\* disconnecter is joined, no disconnect is in progress, the room handle
\* is released and the client is not connected; and the connection is
\* closed only after the room was left.
C25_DisconnectSynchronous ==
  /\ ~crashed
  /\ pc["user"] = "returned" /\ pc["recv"] \in {"idle", "stopped"} =>
       /\ loc.disconnecter = NoStr
       /\ ~loc.disconnecting
       /\ ~loc.room
       /\ ~loc.connected
  /\ ~loc.connected => loc.left

(***************************************************************************)
(* Claims about Trade::Update (checked under SpecTrade; after an Update    *)
(* step loc holds what the RPC calls of that Update returned)              *)
(***************************************************************************)
\* An Update call on a PENDING trade in which checktrade returned.
UpdateOfPending ==
  /\ last'.op = "Update"
  /\ loc' \in UpdateAnswers
  /\ trades' = <<Update(trades[1], now, loc').t>>
  /\ trades[1].state = "PENDING"
  /\ loc'.fault \notin {"update_decode", "checktrade"}

ConfirmedDeep(g) ==
  g.state = "confirmed" /\ g.height + Confirmations <= g.cur + 1

\* C26: Update sets a PENDING trade to SUCCESS iff the GSP reports the
\* btxid confirmed at a height h with h + confirmations <= H + 1 for the
\* tip H; when it is confirmed less deep, or reported pending, the trade
\* stays PENDING and its conflict_height is cleared.
C26_SuccessIffConfirmed ==
  [][UpdateOfPending =>
       /\ trades'[1].state = "SUCCESS" <=> ConfirmedDeep(loc'.gsp)
       /\ \/ loc'.gsp.state = "confirmed" /\ ~ConfirmedDeep(loc'.gsp)
          \/ loc'.gsp.state = "pending"
          => /\ trades'[1].state = "PENDING"
             /\ trades'[1].conflict_height = Unset]_vars

C26_Witness ==
  /\ last.op = "Update"
  /\ trades[1].state = "SUCCESS"
  /\ loc.gsp.state = "confirmed"
  /\ loc.gsp.height + Confirmations = loc.gsp.cur + 1

\* The Update observed the trade's transaction as conflicted: unknown to
\* the GSP, gettxout answered for the inputs and found one of them spent.
Conflicted(t, x) ==
  /\ x.fault = "none"
  /\ x.gsp.state = "unknown"
  /\ \E i \in DOMAIN t.our_psbt.vin : t.our_psbt.vin[i] \in x.spent

\* The Update observed the transaction as pending, confirmed or with all
\* its inputs unspent.
NotConflicted(t, x) ==
  /\ x.fault = "none"
  /\ \/ x.gsp.state \in {"pending", "confirmed"}
     \/ ~\E i \in DOMAIN t.our_psbt.vin : t.our_psbt.vin[i] \in x.spent

\* C27: a PENDING trade becomes FAILED only in an Update that finds the
\* btxid unknown and an input spent while a conflict_height recorded by an
\* earlier Update satisfies conflict_height + confirmations <= H + 1 for
\* the tip H; conflict_height is set only when it is unset, to the tip, by
\* a conflicted observation (which leaves the trade PENDING), never changes
\* to another value, and is unset again by every Update that leaves the
\* trade PENDING on a pending, confirmed or all-inputs-unspent observation.
C27_FailedOnlyAfterConflictRun ==
  [][/\ trades[1].state = "PENDING" /\ trades'[1].state = "FAILED"
          => /\ UpdateOfPending
             /\ Conflicted(trades[1], loc')
             /\ trades[1].conflict_height # Unset
             /\ trades[1].conflict_height + Confirmations
                  <= loc'.gsp.cur + 1
     /\ trades[1].conflict_height = Unset
          /\ trades'[1].conflict_height # Unset
          => /\ UpdateOfPending
             /\ Conflicted(trades[1], loc')
             /\ trades'[1].conflict_height = loc'.gsp.cur
             /\ trades'[1].state = "PENDING"
     /\ trades[1].conflict_height # Unset
          => trades'[1].conflict_height
               \in {trades[1].conflict_height, Unset}
     /\ UpdateOfPending /\ NotConflicted(trades[1], loc')
          /\ trades'[1].state = "PENDING"
          => trades'[1].conflict_height = Unset]_vars

C27_Witness ==
  /\ last.op = "Update"
  /\ trades[1].state = "FAILED"
  /\ Conflicted(trades[1], loc)
  /\ trades[1].conflict_height + Confirmations = loc.gsp.cur + 1

(***************************************************************************)
(* Claims about Trade::HasReply (checked under SpecTrade; after a HasReply *)
(* step loc.sent holds what its sendrawtransaction call sent)              *)
(***************************************************************************)
\* The step is a HasReply call whose sendrawtransaction returned.
SentTransaction ==
  /\ last'.op = "HasReply"
  /\ now' = now
  /\ loc'.sent # {}

\* C28: a MAKER's trade goes from INITIATED to PENDING only in a HasReply
\* call in which finalizepsbt reported the transaction complete and
\* sendrawtransaction returned; a TAKER's trade goes to PENDING exactly in
\* the HasReply call that returns its signed our_psbt as the reply; only a
\* MAKER's call broadcasts, and no call broadcasts after another one did.
C28_PendingByHasReply ==
  [][/\ trades[1].state = "INITIATED" /\ trades'[1].state = "PENDING"
          /\ GetRole(trades[1], Me) = "MAKER"
          => /\ SentTransaction
             /\ \A f \in loc'.sent : AllSigned(f)
             /\ mempool' = mempool \cup loc'.sent
             /\ last'.end = "ok"
     /\ GetRole(trades[1], Me) = "TAKER"
          => /\ trades[1].state = "INITIATED" /\ trades'[1].state = "PENDING"
                  => last'.op = "HasReply"
             /\ last'.op = "HasReply" /\ trades[1].state = "INITIATED"
                  => (trades'[1].state = "PENDING"
                        <=> /\ last'.ret
                            /\ last'.reply.has_psbt
                            /\ trades'[1].our_psbt # NoPsbt
                            /\ last'.reply.psbt = trades'[1].our_psbt)
     /\ SentTransaction
          => /\ GetRole(trades[1], Me) = "MAKER"
             /\ trades[1].state = "INITIATED"
             /\ trades'[1].state = "PENDING"
             /\ mempool = {}
     /\ mempool' # mempool => SentTransaction]_vars

C28_Witness ==
  /\ last.op = "HasReply"
  /\ GetRole(trades[1], Me) = "MAKER"
  /\ trades[1].state = "PENDING"
  /\ loc.sent # {}
  /\ mempool = loc.sent

(***************************************************************************)
(* Claims about the exchange of two honest parties (checked under          *)
(* SpecFlow)                                                               *)
(***************************************************************************)
\* The party p has exactly one trade, for the advertised order, and it is
\* PENDING.
PendingAt(p) ==
  /\ Len(trades[p]) = 1
  /\ trades[p][1].order = loc.order
  /\ trades[p][1].state = "PENDING"

FlowDone ==
  /\ PendingAt(Maker) /\ PendingAt(Taker)
  /\ trades[Maker][1].units = trades[Taker][1].units
  /\ Cardinality(mempool) = 1
  /\ \A tx \in mempool : AllSigned(tx)
  /\ loc.bcastBy = {Maker}

\* C29: with honest parties, wallets that sign their own inputs and no
\* RPC fault, taking a published order ends, after at most three messages
\* made of taking_order, seller_data and psbt parts, with the maker's and
\* the taker's trade PENDING and the transaction broadcast by the maker
\* alone, whether the maker sells or buys: no process ends, every call
\* before the end hands over a message for the other party (so the run
\* ends after at most four calls), nothing is broadcast before the end,
\* and from the moment the maker has the trade its order is locked.
C29_HonestFlow ==
  /\ ~crashed
  /\ Len(loc.log) <= 3
  /\ \A i \in DOMAIN loc.log :
       /\ loc.log[i] # {}
       /\ loc.log[i] \subseteq {"taking_order", "seller_data", "psbt"}
       /\ "taking_order" \in loc.log[i] <=> i = 1
  /\ pc = "start" => loc.log = <<>>
  /\ pc = "flight" => /\ loc.to \in Parties
                      /\ loc.log # <<>>
                      /\ Kinds(loc.msg) = loc.log[Len(loc.log)]
  /\ pc = "done" => FlowDone
  /\ pc # "done" => mempool = {}
  /\ trades[Maker] # <<>>
       => own_orders[Maker][trades[Maker][1].order.id].locked

C29_Witness ==
  /\ pc = "done"
  /\ FlowDone
  /\ loc.order.type = "BID"
  /\ loc.log = <<{"taking_order", "seller_data"}, {"psbt"}, {"psbt"}>>
  /\ own_orders[Maker][loc.order.id].locked

\* The same end when the maker sells.
C29_WitnessMakerSells ==
  /\ pc = "done"
  /\ FlowDone
  /\ loc.order.type = "ASK"
  /\ loc.log = <<{"taking_order"}, {"seller_data"}, {"psbt"}>>
  /\ own_orders[Maker][loc.order.id].locked

(***************************************************************************)
(* Claims about the orderbook (checked under SpecBook, SpecBookFair and    *)
(* SpecBookThreads)                                                        *)
(***************************************************************************)
\* Ascending (account, id) order.
TieLess(a, b) ==
  IF a.account # b.account
  THEN BytesLess(Bytes(a.account), Bytes(b.account))
  ELSE a.id < b.id

\* The lists of one asset are in the order the views promise.
ListsSorted(v) ==
  /\ \A i, j \in DOMAIN v.asks : i < j =>
        \/ v.asks[i].price_sat < v.asks[j].price_sat
        \/ /\ v.asks[i].price_sat = v.asks[j].price_sat
           /\ TieLess(v.asks[i], v.asks[j])
  /\ \A i, j \in DOMAIN v.bids : i < j =>
        \/ v.bids[i].price_sat > v.bids[j].price_sat
        \/ /\ v.bids[i].price_sat = v.bids[j].price_sat
           /\ TieLess(v.bids[i], v.bids[j])

\* C16: in every view of get_for_asset and get_by_asset the bids are in
\* descending and the asks in ascending order of price, and orders of equal
\* price are in ascending (account, id) order in both lists.
C16_ViewSorted ==
  /\ ListsSorted(GetForAsset(allOrders, Asset))
  /\ \A a \in DOMAIN GetByAsset(allOrders) :
        ListsSorted(GetByAsset(allOrders)[a])

\* C17: the view of get_for_asset / get_by_asset never holds an order of
\* the daemon's own account, whatever room messages arrive (the echo of
\* the own broadcast and the broadcast of another session of the same
\* account among them).
C17_NoOwnOrdersInView ==
  /\ \A i \in DOMAIN GetForAsset(allOrders, Asset).asks :
        GetForAsset(allOrders, Asset).asks[i].account # Me
  /\ \A i \in DOMAIN GetForAsset(allOrders, Asset).bids :
        GetForAsset(allOrders, Asset).bids[i].account # Me
  /\ \A a \in DOMAIN GetByAsset(allOrders) :
        /\ \A i \in DOMAIN GetByAsset(allOrders)[a].asks :
              GetByAsset(allOrders)[a].asks[i].account # Me
        /\ \A i \in DOMAIN GetByAsset(allOrders)[a].bids :
              GetByAsset(allOrders)[a].bids[i].account # Me

\* The accounts that can have an entry in the orderbook.
BookAccounts ==
  {FromBytes(DecodeName(Codes(j.username)).decoded) : j \in RoomJids}

\* C18: the timeout tick removes every entry whose last non-empty update
\* is older than the timeout, and it keeps, unchanged, every entry whose
\* last update is not older, also when it pops older stamps of the same
\* account; under a fairly scheduled tick an entry that is older than the
\* timeout does not stay.
C18_Timeout ==
  /\ [][last'.op = "RunTimeout" =>
          \A a \in DOMAIN allOrders.orders :
            IF allOrders.orders[a].lastUpdate < now - OrderTimeout
            THEN a \notin DOMAIN allOrders'.orders
            ELSE /\ a \in DOMAIN allOrders'.orders
                 /\ allOrders'.orders[a] = allOrders.orders[a]]_vars
  /\ \A a \in BookAccounts, t \in 0..MaxClock :
       (/\ a \in DOMAIN allOrders.orders
        /\ allOrders.orders[a].lastUpdate = t
        /\ t < now - OrderTimeout)
         ~> ~(/\ a \in DOMAIN allOrders.orders
              /\ allOrders.orders[a].lastUpdate = t)

\* A tick has popped an older stamp of an account whose entry it kept,
\* and it has removed the entry of another account.
C18_Witness ==
  /\ last.op = "RunTimeout" /\ last.ret
  /\ \E a \in DOMAIN allOrders.orders :
       allOrders.orders[a].lastUpdate >= now - OrderTimeout
  /\ \E a \in BookAccounts :
       /\ a \notin DOMAIN allOrders.orders
       /\ a \in DOMAIN knownJids

\* A thread is inside a write of the orderbook / of the jid map.
WritesBook == pc["chat"] = "update" \/ pc["timeouter"] = "timeout"

WritesJids == pc["chat"] = "authenticate"

\* The races: a view is composed while the orders are written, or a jid
\* is looked up while the jid map is written.
RaceFree ==
  /\ ~(pc["user"] = "get" /\ WritesBook)
  /\ ~(pc["user"] = "lookup" /\ WritesJids)

\* C19: every access to the orderbook's account map and queue
\* (update_orders, get_for_asset, get_by_asset, timeout tick) is made by
\* the thread that holds OrderBook::mut, every access to the
\* authenticator's jid map (authenticate, lookup_jid) under a mutex of the
\* authenticator, and so no reader runs while another thread writes.
C19_AccessUnderMutex ==
  /\ pc["chat"] = "update" => mut = "chat"
  /\ pc["timeouter"] = "timeout" => mut = "timeouter"
  /\ pc["user"] = "get" => mut = "user"
  /\ RaceFree

====
